---- MODULE Spec2Model ----
(***************************************************************************)
(* A model of midi-mixer: the audio engine (audio/engine.go), the mixer    *)
(* coordination layer (mixer/state.go), the MIDI handler (midi/midi.go)    *)
(* and the key / inbound-message dispatch of main.go.                      *)
(*                                                                         *)
(* Go methods are modelled as operators on records (the receiver is the    *)
(* first parameter, the result is the receiver after the call); actions    *)
(* apply them to the state variables.                                      *)
(*                                                                         *)
(* float64 values that the code computes by a division of integers         *)
(* (value/127.0, (value-64)/64.0) are kept as exact fractions in lowest    *)
(* terms.  An envelope is kept as the number n of decay factors applied    *)
(* since it was last set to 1.0 (its value is 0.9997^n); EnvZero stands    *)
(* for the initial 0.0.  Oscillator sample values are not represented;     *)
(* a rendered sample is described by the set of channels accumulated       *)
(* into its stereo sum.                                                    *)
(***************************************************************************)
EXTENDS Integers, Sequences, FiniteSets, TLC

VARIABLES
    state,     \* mixer.State: Channels, MasterVolume, SelectedIndex, hasAudio
    engine,    \* audio.Engine
    handler,   \* midi.Handler
    rd,        \* the frame of the audioStream.Read call in progress
    last,      \* the operation performed by the latest step, with its inputs
    outbox,    \* the messages handed to outPort.Send by the latest step
    lastVol,   \* per MIDI channel, the value of the latest CC7 message sent
    nrecv,     \* number of messages the MIDI driver has delivered so far
    budget,    \* control operations still allowed in this behaviour
    returned,  \* <<v>>: the latest getter or pure function call returned v
    proc       \* the program around the model: commands in flight, shutdown

vars == <<state, engine, handler, rd, last, outbox, lastVol, nrecv, budget, returned, proc>>

\* the program as Init leaves it: one listenForMidi command in flight, no
\* quit requested
(***************************************************************************)
(* Bounds of the model.                                                    *)
(***************************************************************************)
MaxMixerOps == 3     \* control operations per behaviour of SpecMixer
MaxSoloOps == 6      \* control operations per behaviour of SpecSolo
MaxEngineOps == 3    \* control operations per behaviour of SpecEngine
MaxRenderOps == 3    \* setter calls per behaviour of SpecRender
MaxSamples == 3      \* samples rendered per behaviour of SpecRender
MaxOverflow == 3     \* driver messages beyond the queue capacity in SpecQueue
MaxQueueOps == 1     \* Connect calls per behaviour of SpecQueue
MaxAdjustOps == 3    \* control operations per behaviour of SpecAdjust
MaxBlockOps == 2     \* setter calls per behaviour of SpecBlock
MaxTempoOps == 1     \* SetBPM calls per behaviour of SpecTempoChange
MaxWaveSamples == 132 \* samples rendered per behaviour of SpecWave
MaxWaveOps == 2      \* GetWaveform calls and caller writes per behaviour of SpecWave
MaxNoAudioOps == 2   \* control operations per behaviour of SpecNoAudio
MaxPatternOps == 2   \* pattern calls per behaviour of SpecPattern
MaxShutdownOps == 1  \* Connect calls per behaviour of SpecShutdown
MaxListenMsgs == 8   \* driver messages per behaviour of SpecShutdown, SpecListen
MaxLockOps == 2      \* engine calls of the UI thread per behaviour of SpecLock
MaxLockSamples == 2  \* samples rendered per behaviour of SpecLock
MaxKeyOps == 3       \* keys pressed per behaviour of SpecKeys
ClipScale == 20      \* softClip is applied to the inputs n/ClipScale, |n| <= 3*ClipScale

(***************************************************************************)
(* Program constants.                                                      *)
(***************************************************************************)
sampleRate == 44100
waveformSize == 128
MinBPM == 60
MaxBPM == 200
DefaultBPM == 120
NumChannels == 8
CCChanCap == 100
CCVolume == 7
CCPan == 10
CCExpression == 11
ChKick == 0
ChSnare == 1
ChHiHat == 2
ChBass == 3
ChLead1 == 4
ChLead2 == 5
ChPad == 6
ChFX == 7

Nil == "nil"
EnvZero == -1
NoValue == -1

\* a sync.RWMutex: its writer, or Nil, and its readers
NoLock == [w |-> Nil, r |-> {}]

\* the UI thread between two calls on the engine
UIIdle == [pc |-> "idle", op |-> Nil, val |-> 0]

\* mu is Engine.mu and wmu is Engine.waveformMu; rpc is the position of the
\* audio thread within Read and ui the call of the UI thread in progress
ProcInit ==
    [listen |-> 1, quitting |-> FALSE, quit |-> FALSE,
     mu |-> NoLock, wmu |-> NoLock, rpc |-> "idle", ui |-> UIIdle]
NoChannel == -1

(***************************************************************************)
(* Exact fractions.                                                        *)
(***************************************************************************)
Abs(x) == IF x < 0 THEN -x ELSE x

RECURSIVE GCD(_, _)
GCD(a, b) == IF b = 0 THEN a ELSE GCD(b, a % b)

\* n/d in lowest terms, d > 0
Rat(n, d) == LET g == GCD(Abs(n), d) IN [num |-> n \div g, den |-> d \div g]

(***************************************************************************)
(* audio/engine.go: data                                                   *)
(***************************************************************************)
BeatPresets ==
    << [Kick  |-> <<1,0,0,0, 0,0,1,0, 0,0,1,0, 0,0,0,0>>,
        Snare |-> <<0,0,0,0, 1,0,0,0, 0,0,0,0, 1,0,0,0>>,
        HiHat |-> <<1,1,1,1, 1,1,1,1, 1,1,1,1, 1,1,1,1>>,
        Bass  |-> <<1,0,0,1, 0,0,1,0, 1,0,0,1, 0,0,0,1>>],
       [Kick  |-> <<1,0,0,0, 1,0,0,0, 1,0,0,0, 1,0,0,0>>,
        Snare |-> <<0,0,0,0, 1,0,0,0, 0,0,0,0, 1,0,0,0>>,
        HiHat |-> <<1,0,1,0, 1,0,1,0, 1,0,1,0, 1,0,1,0>>,
        Bass  |-> <<1,0,0,0, 0,0,1,0, 1,0,0,0, 0,0,0,0>>],
       [Kick  |-> <<1,0,0,1, 0,0,1,0, 0,0,1,0, 1,0,0,0>>,
        Snare |-> <<0,0,0,0, 1,0,0,1, 0,0,0,0, 1,0,0,0>>,
        HiHat |-> <<0,1,1,1, 0,1,1,1, 0,1,1,1, 0,1,1,1>>,
        Bass  |-> <<1,0,1,0, 0,1,0,1, 1,0,1,0, 0,1,0,1>>],
       [Kick  |-> <<1,0,0,0, 0,0,1,0, 0,0,0,0, 1,0,0,0>>,
        Snare |-> <<0,0,0,0, 1,0,0,0, 0,0,0,1, 0,0,1,0>>,
        HiHat |-> <<1,0,0,1, 0,0,1,0, 0,1,0,0, 1,0,0,1>>,
        Bass  |-> <<1,0,0,0, 0,1,0,0, 1,0,0,0, 0,1,0,0>>],
       [Kick  |-> <<1,0,0,0, 1,0,0,0, 1,0,0,0, 1,0,0,0>>,
        Snare |-> <<0,0,0,0, 1,0,0,0, 0,0,0,0, 1,0,0,0>>,
        HiHat |-> <<0,0,1,0, 0,0,1,0, 0,0,1,0, 0,0,1,0>>,
        Bass  |-> <<1,0,0,1, 0,0,0,1, 1,0,0,1, 0,0,0,1>>],
       [Kick  |-> <<1,0,0,0, 0,0,0,0, 1,0,0,1, 0,0,0,0>>,
        Snare |-> <<0,0,0,0, 1,0,0,0, 0,0,0,0, 1,0,1,0>>,
        HiHat |-> <<1,1,0,1, 1,1,0,1, 1,1,0,1, 1,1,0,1>>,
        Bass  |-> <<1,0,1,0, 0,0,1,1, 0,0,1,0, 0,1,1,0>>],
       [Kick  |-> <<1,0,0,0, 0,0,1,0, 0,0,0,0, 0,0,1,0>>,
        Snare |-> <<0,0,0,0, 1,0,0,0, 0,0,1,0, 0,0,0,0>>,
        HiHat |-> <<1,0,1,1, 0,1,1,0, 1,1,0,1, 1,0,1,1>>,
        Bass  |-> <<1,0,0,1, 0,1,0,0, 1,0,0,1, 0,1,0,0>>],
       [Kick  |-> <<1,0,0,1, 0,0,1,0, 0,0,1,0, 1,0,0,0>>,
        Snare |-> <<0,0,0,1, 0,0,0,0, 0,0,1,0, 0,0,1,0>>,
        HiHat |-> <<1,0,1,0, 1,0,1,0, 1,0,1,0, 1,0,1,0>>,
        Bass  |-> <<1,0,0,0, 1,0,0,1, 0,0,1,0, 0,1,0,0>> ] >>

\* len(BeatPresets)
NumPresets == Len(BeatPresets)

\* the per-role defaults of NewEngine (volume, base frequency)
EngineDefaults ==
    << [vol |-> Rat(9, 10), freq |-> 60],
       [vol |-> Rat(7, 10), freq |-> 200],
       [vol |-> Rat(5, 10), freq |-> 8000],
       [vol |-> Rat(8, 10), freq |-> 55],
       [vol |-> Rat(6, 10), freq |-> 440],
       [vol |-> Rat(5, 10), freq |-> 523],
       [vol |-> Rat(4, 10), freq |-> 220],
       [vol |-> Rat(3, 10), freq |-> 1000] >>

\* ChannelState of channel i as NewEngine builds it
DefaultChannelState(i) ==
    [Volume    |-> IF i < Len(EngineDefaults) THEN EngineDefaults[i + 1].vol ELSE Rat(7, 10),
     Pan       |-> Rat(0, 1),
     Mute      |-> FALSE,
     Solo      |-> FALSE,
     Frequency |-> IF i < Len(EngineDefaults) THEN EngineDefaults[i + 1].freq ELSE 440]

\* the channels whose voice advances an oscillator phase of the engine:
\* bassPhase (kick), noisePhase (snare), leadPhases[0], leadPhases[1] and the
\* four padPhases, which advance together; a phase is modelled by the number
\* of times it was advanced
Oscillators == {ChKick, ChSnare, ChLead1, ChLead2, ChPad}

\* NewEngine(numChannels), the device having been acquired
NewEngine(numChannels) ==
    [channels     |-> [i \in 0..(numChannels - 1) |-> DefaultChannelState(i)],
     master       |-> Rat(8, 10),
     running      |-> TRUE,
     samplePos    |-> 0,
     waveformL    |-> [i \in 0..(waveformSize - 1) |-> NoValue],
     waveformR    |-> [i \in 0..(waveformSize - 1) |-> NoValue],
     waveformIdx  |-> 0,
     envelopes    |-> [i \in 0..(numChannels - 1) |-> EnvZero],
     phases       |-> [c \in Oscillators |-> 0],
     BPM          |-> DefaultBPM,
     PatternIndex |-> 0,
     CurrentStep  |-> 0]

(***************************************************************************)
(* audio/engine.go: setters                                                *)
(***************************************************************************)
InRange(e, channel) == channel >= 0 /\ channel < Cardinality(DOMAIN e.channels)

\* variant: the volume is divided by 128
EngineSetChannelVolume_By128(e, channel, value) ==
    IF InRange(e, channel)
    THEN [e EXCEPT !.channels[channel].Volume = Rat(value, 128)]
    ELSE e

EngineSetChannelVolume(e, channel, value) ==
    IF InRange(e, channel)
    THEN [e EXCEPT !.channels[channel].Volume = Rat(value, 127)]
    ELSE e

EngineSetChannelPan(e, channel, value) ==
    IF InRange(e, channel)
    THEN [e EXCEPT !.channels[channel].Pan = Rat(value - 64, 64)]
    ELSE e

EngineSetChannelMute(e, channel, muted) ==
    IF InRange(e, channel)
    THEN [e EXCEPT !.channels[channel].Mute = muted]
    ELSE e

\* variant: an index past the end is clamped to the last channel
EngineSetChannelSolo_Clamping(e, channel, solo) ==
    LET n == Cardinality(DOMAIN e.channels)
        c == IF channel >= n THEN n - 1 ELSE channel
    IN  IF c >= 0 THEN [e EXCEPT !.channels[c].Solo = solo] ELSE e

EngineSetChannelSolo(e, channel, solo) ==
    IF InRange(e, channel)
    THEN [e EXCEPT !.channels[channel].Solo = solo]
    ELSE e

EngineSetMasterVolume(e, value) == [e EXCEPT !.master = Rat(value, 127)]

\* variant: the upper clamp is missing
EngineSetBPM_NoUpperClamp(e, bpm) ==
    [e EXCEPT !.BPM = IF bpm < MinBPM THEN MinBPM ELSE bpm]

EngineSetBPM(e, bpm) ==
    LET b1 == IF bpm < MinBPM THEN MinBPM ELSE bpm
        b2 == IF b1 > MaxBPM THEN MaxBPM ELSE b1
    IN  [e EXCEPT !.BPM = b2]

EngineGetBPM(e) == e.BPM

\* variant: the index is reduced modulo the table length
EngineSetPattern_Modulo(e, index) == [e EXCEPT !.PatternIndex = index % NumPresets]

\* variant: only a negative index is rejected
EngineSetPattern_NoUpperCheck(e, index) ==
    IF index >= 0 THEN [e EXCEPT !.PatternIndex = index] ELSE e

EngineSetPattern(e, index) ==
    IF index >= 0 /\ index < NumPresets
    THEN [e EXCEPT !.PatternIndex = index]
    ELSE e

EngineGetPattern(e) == e.PatternIndex

EngineNextPattern(e) == [e EXCEPT !.PatternIndex = (e.PatternIndex + 1) % NumPresets]

\* variant: the wraparound goes one past the last preset
EnginePrevPattern_OffByOne(e) ==
    LET p == e.PatternIndex - 1
    IN  [e EXCEPT !.PatternIndex = IF p < 0 THEN NumPresets ELSE p]

EnginePrevPattern(e) ==
    LET p == e.PatternIndex - 1
    IN  [e EXCEPT !.PatternIndex = IF p < 0 THEN NumPresets - 1 ELSE p]

\* variant: Close also rewinds the sample counter
EngineClose_Rewinds(e) == [e EXCEPT !.running = FALSE, !.samplePos = 0]

EngineClose(e) == [e EXCEPT !.running = FALSE]

\* NewEngine as its caller sees it: the engine and the error; deviceOK is the
\* outcome of oto.NewContext
NewEngineOrError(numChannels, deviceOK) ==
    IF deviceOK
    THEN [engine |-> NewEngine(numChannels), err |-> Nil]
    ELSE [engine |-> Nil, err |-> "oto.NewContext failed"]

(***************************************************************************)
(* midi/midi.go                                                            *)
(***************************************************************************)
\* NewHandler(): no ports, not connected, an empty queue of capacity 100
NewHandler ==
    [inPort    |-> Nil,
     outPort   |-> Nil,
     stopFunc  |-> FALSE,
     connected |-> FALSE,
     closed    |-> FALSE,
     ccChan    |-> <<>>]

CCMessage(ch, cc, val) == [Channel |-> ch, Controller |-> cc, Value |-> val]

\* variant: SendCC sends whenever an output port is set
SendCC_IgnoresConnected(h, channel, controller, value) ==
    IF h.outPort = Nil
    THEN <<>>
    ELSE <<CCMessage(channel, controller, value)>>

\* SendCC: the messages handed to outPort.Send (none without a destination)
SendCC(h, channel, controller, value) ==
    IF h.outPort = Nil \/ ~h.connected
    THEN <<>>
    ELSE <<CCMessage(channel, controller, value)>>

\* disconnect(), called with the lock held
Disconnect(h) == [h EXCEPT !.stopFunc = FALSE, !.connected = FALSE]

\* variant: Connect does not disconnect an existing connection first
Connect_NoDisconnect(h, inP, outP, openOK, listenOK) ==
    LET h1 == [h EXCEPT !.inPort = inP, !.outPort = outP]
    IN  IF outP # Nil /\ ~openOK THEN h1
        ELSE IF inP # Nil /\ ~listenOK THEN h1
        ELSE [h1 EXCEPT !.stopFunc = IF inP # Nil THEN TRUE ELSE h1.stopFunc,
                        !.connected = TRUE]

\* Connect(inPort, outPort); openOK / listenOK are the outcomes of
\* outPort.Open() and midi.ListenTo()
Connect(h, inP, outP, openOK, listenOK) ==
    LET h0 == IF h.connected THEN Disconnect(h) ELSE h
        h1 == [h0 EXCEPT !.inPort = inP, !.outPort = outP]
    IN  IF outP # Nil /\ ~openOK THEN h1
        ELSE IF inP # Nil /\ ~listenOK THEN h1
        ELSE [h1 EXCEPT !.stopFunc = IF inP # Nil THEN TRUE ELSE h1.stopFunc,
                        !.connected = TRUE]

\* the error Connect returns: Nil, or which of the two steps failed
ConnectError(h, inP, outP, openOK, listenOK) ==
    IF outP # Nil /\ ~openOK THEN "failed to open output port"
    ELSE IF inP # Nil /\ ~listenOK THEN "failed to listen on input port"
    ELSE Nil

\* variant: a full queue drops its oldest message to admit the newest
HandleMIDI_DropOldest(h, kind, ch, cc, val) ==
    IF kind = "cc"
    THEN IF Len(h.ccChan) < CCChanCap
         THEN [h EXCEPT !.ccChan = Append(h.ccChan, CCMessage(ch, cc, val))]
         ELSE [h EXCEPT !.ccChan = Append(Tail(h.ccChan), CCMessage(ch, cc, val))]
    ELSE h

\* handleMIDI: the select with a default case; kind is what GetControlChange
\* reports about the driver's message
HandleMIDI(h, kind, ch, cc, val) ==
    IF kind = "cc"
    THEN IF Len(h.ccChan) < CCChanCap
         THEN [h EXCEPT !.ccChan = Append(h.ccChan, CCMessage(ch, cc, val))]
         ELSE h
    ELSE h

(***************************************************************************)
(* mixer/state.go                                                          *)
(***************************************************************************)
NewChannel(id) == [ID |-> id, Volume |-> 100, Pan |-> 64, Mute |-> FALSE, Solo |-> FALSE]

\* the loop "for i, ch := range channels" of NewState that syncs the engine
RECURSIVE SyncEngine(_, _, _)
SyncEngine(e, channels, i) ==
    IF i >= Cardinality(DOMAIN channels) THEN e
    ELSE LET ch == channels[i]
             e1 == EngineSetChannelVolume(e, i, ch.Volume)
             e2 == EngineSetChannelPan(e1, i, ch.Pan)
             e3 == EngineSetChannelMute(e2, i, ch.Mute)
         IN  SyncEngine(e3, channels, i + 1)

\* variant: NewState leaves the FX channel unmuted
NewStateChannels_NoFXMute(numChannels) ==
    [i \in 0..(numChannels - 1) |-> NewChannel(i)]

\* the Channels slice NewState builds
NewStateChannels(numChannels) ==
    [i \in 0..(numChannels - 1) |->
        IF numChannels > ChFX /\ i = ChFX
        THEN [NewChannel(i) EXCEPT !.Mute = TRUE]
        ELSE NewChannel(i)]

\* the State NewState returns; audioOK: the audio device could be acquired
NewState(numChannels, audioOK) ==
    [Channels      |-> NewStateChannels(numChannels),
     MasterVolume  |-> 100,
     SelectedIndex |-> 0,
     hasAudio      |-> audioOK]

\* the engine NewState leaves behind
NewStateEngine(numChannels) ==
    EngineSetMasterVolume(
        SyncEngine(NewEngine(numChannels), NewStateChannels(numChannels), 0), 100)

NumCh(s) == Cardinality(DOMAIN s.Channels)

\* SelectedChannel: the index of the selected channel, or NoChannel for nil
SelectedChannel(s) ==
    IF s.SelectedIndex >= 0 /\ s.SelectedIndex < NumCh(s) THEN s.SelectedIndex ELSE NoChannel

SelectNext(s) ==
    IF s.SelectedIndex < NumCh(s) - 1
    THEN [s EXCEPT !.SelectedIndex = s.SelectedIndex + 1] ELSE s

SelectPrev(s) ==
    IF s.SelectedIndex > 0
    THEN [s EXCEPT !.SelectedIndex = s.SelectedIndex - 1] ELSE s

\* variant: no clamp, the sum is converted to uint8 as it is
ClampCC_Wrapping(newVal) == newVal % 256

\* the clamp of AdjustVolume, AdjustPan and AdjustMasterVolume
ClampCC(newVal) == IF newVal < 0 THEN 0 ELSE IF newVal > 127 THEN 127 ELSE newVal

\* the result of a mixer operation: the State, the Engine and the messages sent
World(s, e, out) == [s |-> s, e |-> e, out |-> out]

\* variant: the volume message is sent for a muted channel too
AdjustVolume_AlwaysSends(s, e, h, delta) ==
    LET i == SelectedChannel(s) IN
    IF i = NoChannel THEN World(s, e, <<>>)
    ELSE LET newVal == ClampCC(s.Channels[i].Volume + delta)
             s1 == [s EXCEPT !.Channels[i].Volume = newVal]
             ch == s1.Channels[i]
         IN  World(s1,
                   IF s.hasAudio THEN EngineSetChannelVolume(e, ch.ID, ch.Volume) ELSE e,
                   SendCC(h, ch.ID, CCVolume, ch.Volume))

AdjustVolume(s, e, h, delta) ==
    LET i == SelectedChannel(s) IN
    IF i = NoChannel THEN World(s, e, <<>>)
    ELSE LET newVal == ClampCC(s.Channels[i].Volume + delta)
             s1 == [s EXCEPT !.Channels[i].Volume = newVal]
             ch == s1.Channels[i]
         IN  World(s1,
                   IF s.hasAudio THEN EngineSetChannelVolume(e, ch.ID, ch.Volume) ELSE e,
                   IF ~ch.Mute THEN SendCC(h, ch.ID, CCVolume, ch.Volume) ELSE <<>>)

AdjustPan(s, e, h, delta) ==
    LET i == SelectedChannel(s) IN
    IF i = NoChannel THEN World(s, e, <<>>)
    ELSE LET newVal == ClampCC(s.Channels[i].Pan + delta)
             s1 == [s EXCEPT !.Channels[i].Pan = newVal]
             ch == s1.Channels[i]
         IN  World(s1,
                   IF s.hasAudio THEN EngineSetChannelPan(e, ch.ID, ch.Pan) ELSE e,
                   SendCC(h, ch.ID, CCPan, ch.Pan))

\* variant: without an engine ToggleMute does nothing
ToggleMute_NeedsAudio(s, e, h) ==
    LET i == SelectedChannel(s) IN
    IF i = NoChannel \/ ~s.hasAudio THEN World(s, e, <<>>)
    ELSE LET s1 == [s EXCEPT !.Channels[i].Mute = ~s.Channels[i].Mute]
             ch == s1.Channels[i]
         IN  World(s1,
                   EngineSetChannelMute(e, ch.ID, ch.Mute),
                   IF ch.Mute THEN SendCC(h, ch.ID, CCVolume, 0)
                              ELSE SendCC(h, ch.ID, CCVolume, ch.Volume))

ToggleMute(s, e, h) ==
    LET i == SelectedChannel(s) IN
    IF i = NoChannel THEN World(s, e, <<>>)
    ELSE LET s1 == [s EXCEPT !.Channels[i].Mute = ~s.Channels[i].Mute]
             ch == s1.Channels[i]
         IN  World(s1,
                   IF s.hasAudio THEN EngineSetChannelMute(e, ch.ID, ch.Mute) ELSE e,
                   IF ch.Mute THEN SendCC(h, ch.ID, CCVolume, 0)
                              ELSE SendCC(h, ch.ID, CCVolume, ch.Volume))

\* the loop of ToggleSolo that pushes every channel's solo flag
RECURSIVE PushSolo(_, _, _)
PushSolo(e, channels, i) ==
    IF i >= Cardinality(DOMAIN channels) THEN e
    ELSE PushSolo(EngineSetChannelSolo(e, channels[i].ID, channels[i].Solo), channels, i + 1)

\* the anySolo loop of updateSoloState
AnySoloMixer(channels) == \E i \in DOMAIN channels : channels[i].Solo

\* variant: the recomputation sends the stored volume of a muted channel
SoloVolume_IgnoresMute(ch, anySolo) ==
    IF ~anySolo
    THEN ch.Volume
    ELSE IF ch.Solo THEN ch.Volume ELSE 0

\* the volume updateSoloState sends for one channel
SoloVolume(ch, anySolo) ==
    IF ~anySolo
    THEN IF ~ch.Mute THEN ch.Volume ELSE 0
    ELSE IF ch.Solo /\ ~ch.Mute THEN ch.Volume ELSE 0

RECURSIVE SoloSends(_, _, _, _)
SoloSends(channels, h, anySolo, i) ==
    IF i >= Cardinality(DOMAIN channels) THEN <<>>
    ELSE SendCC(h, channels[i].ID, CCVolume, SoloVolume(channels[i], anySolo))
         \o SoloSends(channels, h, anySolo, i + 1)

\* updateSoloState: the messages it sends
UpdateSoloState(s, h) == SoloSends(s.Channels, h, AnySoloMixer(s.Channels), 0)

ToggleSolo(s, e, h) ==
    LET i == SelectedChannel(s) IN
    IF i = NoChannel THEN World(s, e, <<>>)
    ELSE LET s1 == [s EXCEPT !.Channels[i].Solo = ~s.Channels[i].Solo]
         IN  World(s1,
                   IF s.hasAudio THEN PushSolo(e, s1.Channels, 0) ELSE e,
                   UpdateSoloState(s1, h))

\* variant: an out-of-range id is wrapped into the slice instead of ignored
SetChannelVolume_Wrapping(s, e, channelID, value) ==
    LET id == channelID % NumCh(s)
    IN  World([s EXCEPT !.Channels[id].Volume = value],
              IF s.hasAudio THEN EngineSetChannelVolume(e, id, value) ELSE e,
              <<>>)

SetChannelVolume(s, e, channelID, value) ==
    IF channelID >= 0 /\ channelID < NumCh(s)
    THEN World([s EXCEPT !.Channels[channelID].Volume = value],
               IF s.hasAudio THEN EngineSetChannelVolume(e, channelID, value) ELSE e,
               <<>>)
    ELSE World(s, e, <<>>)

SetChannelPan(s, e, channelID, value) ==
    IF channelID >= 0 /\ channelID < NumCh(s)
    THEN World([s EXCEPT !.Channels[channelID].Pan = value],
               IF s.hasAudio THEN EngineSetChannelPan(e, channelID, value) ELSE e,
               <<>>)
    ELSE World(s, e, <<>>)

AdjustMasterVolume(s, e, delta) ==
    LET s1 == [s EXCEPT !.MasterVolume = ClampCC(s.MasterVolume + delta)]
    IN  World(s1,
              IF s.hasAudio THEN EngineSetMasterVolume(e, s1.MasterVolume) ELSE e,
              <<>>)

AdjustBPM(s, e, delta) ==
    IF s.hasAudio THEN EngineSetBPM(e, EngineGetBPM(e) + delta) ELSE e

StateGetBPM(s, e) == IF s.hasAudio THEN EngineGetBPM(e) ELSE DefaultBPM

EngineGetCurrentStep(e) == e.CurrentStep

StateGetPatternIndex(s, e) == IF s.hasAudio THEN EngineGetPattern(e) ELSE 0

StateGetCurrentStep(s, e) == IF s.hasAudio THEN EngineGetCurrentStep(e) ELSE 0

\* Handler.Close: disconnect, then close(ccChan)
HandlerClose(h) == [Disconnect(h) EXCEPT !.closed = TRUE]

\* State.Close: the engine, when there is one, and the handler after it
StateClose(s, e, h) ==
    [e |-> IF s.hasAudio THEN EngineClose(e) ELSE e,
     h |-> HandlerClose(h)]

StateNextPattern(s, e) == IF s.hasAudio THEN EngineNextPattern(e) ELSE e

StatePrevPattern(s, e) == IF s.hasAudio THEN EnginePrevPattern(e) ELSE e

(***************************************************************************)
(* main.go                                                                 *)
(***************************************************************************)
\* handleMixerKeys, case "0": reset the selected channel to defaults
\* variant: the reset key resets every channel
ResetChannel_AllChannels(s, e) ==
    World([s EXCEPT !.Channels = [i \in DOMAIN s.Channels |-> NewChannel(i)]], e, <<>>)

ResetChannel(s, e) ==
    LET i == SelectedChannel(s) IN
    IF i = NoChannel THEN World(s, e, <<>>)
    ELSE World([s EXCEPT !.Channels[i].Volume = 100,
                         !.Channels[i].Pan = 64,
                         !.Channels[i].Mute = FALSE,
                         !.Channels[i].Solo = FALSE],
               e, <<>>)

\* variant: every controller other than pan is taken for volume
HandleMidiCC_DefaultVolume(s, e, msg) ==
    LET chIdx == msg.Channel IN
    IF chIdx >= NumCh(s) THEN World(s, e, <<>>)
    ELSE IF msg.Controller = CCPan THEN SetChannelPan(s, e, chIdx, msg.Value)
    ELSE SetChannelVolume(s, e, chIdx, msg.Value)

\* handleMidiCC
HandleMidiCC(s, e, msg) ==
    LET chIdx == msg.Channel IN
    IF chIdx >= NumCh(s) THEN World(s, e, <<>>)
    ELSE IF msg.Controller = CCVolume THEN SetChannelVolume(s, e, chIdx, msg.Value)
    ELSE IF msg.Controller = CCPan THEN SetChannelPan(s, e, chIdx, msg.Value)
    ELSE World(s, e, <<>>)

(***************************************************************************)
(* audio/engine.go: audioStream.Read                                       *)
(***************************************************************************)
\* nbytes is len(buf), written the number of leading bytes of buf assigned so
\* far, ret the value returned (NoValue until the call returns).  mix and gain
\* are the volume / pan of the accumulated channels and the master factor
\* that scaled the latest sample.  stepStart and stepLen record the sample
\* at which the step index last changed and the samplesPerBeat used there;
\* origin is the sample counter at which the behaviour starts.
IdleFrame ==
    [pc |-> "idle", running |-> TRUE, master |-> Rat(0, 1), channels |-> <<>>,
     envelopes |-> <<>>, anySolo |-> FALSE, bpm |-> 0, patternIdx |-> 0,
     samplesPerBeat |-> 0, samples |-> 0, i |-> 0, contrib |-> {}, silence |-> FALSE,
     rendered |-> FALSE, nbytes |-> 0, written |-> 0, ret |-> NoValue,
     mix |-> <<>>, gain |-> Rat(0, 1), stepStart |-> 0, stepLen |-> 0,
     origin |-> 0]

\* the anySolo loop of Read, over the snapshot
AnySoloSnapshot(channels) == \E c \in DOMAIN channels : channels[c].Solo

\* variant: a soloed channel is rendered even when it is muted
SkipChannel_SoloBeatsMute(ch, anySolo) ==
    IF anySolo THEN ~ch.Solo ELSE ch.Mute

\* the condition of the "continue" that skips a channel
SkipChannel(ch, anySolo) == ch.Mute \/ (anySolo /\ ~ch.Solo)

\* the channels accumulated into leftSum / rightSum for one sample
Accumulated(channels, anySolo) ==
    {c \in DOMAIN channels : ~SkipChannel(channels[c], anySolo)}

\* variant: the length of a beat, not of a sixteenth
SamplesPerBeat_PerBeat(bpm) == (sampleRate * 60) \div bpm

\* sampleRate * 60 / bpm / 4 in integer arithmetic
SamplesPerBeat(bpm) == ((sampleRate * 60) \div bpm) \div 4

\* the pattern's hit for a percussive channel at a step
PatternHit(pattern, j, step) ==
    \/ j = ChKick /\ pattern.Kick[step + 1] = 1
    \/ j = ChSnare /\ pattern.Snare[step + 1] = 1
    \/ j = ChHiHat /\ pattern.HiHat[step + 1] = 1
    \/ j = ChBass /\ pattern.Bass[step + 1] = 1

\* variant: the factor is applied twice per sample
EnvDecay_Twice(env) == IF env = EnvZero THEN EnvZero ELSE env + 2

\* envelopes[j] *= 0.9997
EnvDecay(env) == IF env = EnvZero THEN EnvZero ELSE env + 1

\* variant: the running flag is not consulted
ReadSnapshot_IgnoresRunning(e, r, nbytes) ==
    [r EXCEPT !.running = e.running, !.master = e.master,
              !.channels = e.channels, !.envelopes = e.envelopes,
              !.samples = nbytes \div 4, !.i = 0, !.contrib = {},
              !.rendered = FALSE, !.nbytes = nbytes, !.written = 0,
              !.ret = NoValue, !.pc = "params", !.silence = FALSE,
              !.anySolo = AnySoloSnapshot(e.channels)]

\* the first locked section of Read: the snapshot, then silence or anySolo
ReadSnapshot(e, r, nbytes) ==
    LET r1 == [r EXCEPT !.running = e.running, !.master = e.master,
                        !.channels = e.channels, !.envelopes = e.envelopes,
                        !.samples = nbytes \div 4, !.i = 0, !.contrib = {},
                        !.rendered = FALSE, !.nbytes = nbytes, !.written = 0,
                        !.ret = NoValue]
    IN  IF ~r1.running
        THEN [r1 EXCEPT !.pc = "idle", !.silence = TRUE,
                        !.written = nbytes, !.ret = nbytes]
        ELSE [r1 EXCEPT !.pc = "params", !.silence = FALSE,
                        !.anySolo = AnySoloSnapshot(r1.channels)]

\* variant: the channels and the master volume are copied again here
ReadTempo_Resnapshot(e, r) ==
    LET p == IF e.PatternIndex >= NumPresets THEN 0 ELSE e.PatternIndex
    IN  [r EXCEPT !.bpm = e.BPM, !.patternIdx = p,
                  !.samplesPerBeat = SamplesPerBeat(e.BPM),
                  !.channels = e.channels, !.master = e.master,
                  !.anySolo = AnySoloSnapshot(e.channels),
                  !.pc = IF r.samples > 0 THEN "loop" ELSE "idle",
                  !.ret = IF r.samples > 0 THEN NoValue ELSE r.nbytes]

\* the second locked section: BPM and pattern, then samplesPerBeat; with no
\* whole frame in the buffer the loop is not entered and Read returns
ReadTempo(e, r) ==
    LET p == IF e.PatternIndex >= NumPresets THEN 0 ELSE e.PatternIndex
    IN  [r EXCEPT !.bpm = e.BPM, !.patternIdx = p,
                  !.samplesPerBeat = SamplesPerBeat(e.BPM),
                  !.pc = IF r.samples > 0 THEN "loop" ELSE "idle",
                  !.ret = IF r.samples > 0 THEN NoValue ELSE r.nbytes]

\* the oscillator phases after one iteration: the voice of every channel the
\* block's snapshot does not skip advances its phase
PhaseAdvance(ph, r) ==
    [c \in DOMAIN ph |->
        IF c \in Accumulated(r.channels, r.anySolo) THEN ph[c] + 1 ELSE ph[c]]

\* variant: a hit re-arms the envelope on every sample of its step
RenderSampleEngine_WholeStep(e, r) ==
    LET samplePos == e.samplePos
        step == (samplePos \div r.samplesPerBeat) % 16
        pattern == BeatPresets[r.patternIdx + 1]
        env1 == [j \in DOMAIN e.envelopes |->
                    IF PatternHit(pattern, j, step) THEN 0 ELSE e.envelopes[j]]
    IN  [e EXCEPT !.samplePos = samplePos + 1,
                  !.phases = PhaseAdvance(e.phases, r),
                  !.CurrentStep = step,
                  !.envelopes = [j \in DOMAIN env1 |-> EnvDecay(env1[j])],
                  !.waveformL[e.waveformIdx] = samplePos,
                  !.waveformR[e.waveformIdx] = samplePos,
                  !.waveformIdx = (e.waveformIdx + 1) % waveformSize]

\* variant: the trigger consults the engine's pattern index of the moment
RenderSampleEngine_LivePattern(e, r) ==
    LET samplePos == e.samplePos
        step == (samplePos \div r.samplesPerBeat) % 16
        pattern == BeatPresets[e.PatternIndex + 1]
        onBeat == samplePos % r.samplesPerBeat = 0
        env1 == [j \in DOMAIN e.envelopes |->
                    IF onBeat /\ PatternHit(pattern, j, step) THEN 0 ELSE e.envelopes[j]]
    IN  [e EXCEPT !.samplePos = samplePos + 1,
                  !.phases = PhaseAdvance(e.phases, r),
                  !.CurrentStep = step,
                  !.envelopes = [j \in DOMAIN env1 |-> EnvDecay(env1[j])],
                  !.waveformL[e.waveformIdx] = samplePos,
                  !.waveformR[e.waveformIdx] = samplePos,
                  !.waveformIdx = (e.waveformIdx + 1) % waveformSize]

\* variant: the step is computed with the engine's BPM of the moment
RenderSampleEngine_LiveBPM(e, r) ==
    LET samplePos == e.samplePos
        spb == SamplesPerBeat(e.BPM)
        step == (samplePos \div spb) % 16
        pattern == BeatPresets[r.patternIdx + 1]
        onBeat == samplePos % spb = 0
        env1 == [j \in DOMAIN e.envelopes |->
                    IF onBeat /\ PatternHit(pattern, j, step) THEN 0 ELSE e.envelopes[j]]
    IN  [e EXCEPT !.samplePos = samplePos + 1,
                  !.phases = PhaseAdvance(e.phases, r),
                  !.CurrentStep = step,
                  !.envelopes = [j \in DOMAIN env1 |-> EnvDecay(env1[j])],
                  !.waveformL[e.waveformIdx] = samplePos,
                  !.waveformR[e.waveformIdx] = samplePos,
                  !.waveformIdx = (e.waveformIdx + 1) % waveformSize]

\* variant: the iteration stores the block's snapshot of the channels and the
\* master volume back into the engine
RenderSampleEngine_WritesSnapshot(e, r) ==
    LET samplePos == e.samplePos
        step == (samplePos \div r.samplesPerBeat) % 16
        pattern == BeatPresets[r.patternIdx + 1]
        onBeat == samplePos % r.samplesPerBeat = 0
        env1 == [j \in DOMAIN e.envelopes |->
                    IF onBeat /\ PatternHit(pattern, j, step) THEN 0 ELSE e.envelopes[j]]
    IN  [e EXCEPT !.samplePos = samplePos + 1,
                  !.phases = PhaseAdvance(e.phases, r),
                  !.CurrentStep = step,
                  !.envelopes = [j \in DOMAIN env1 |-> EnvDecay(env1[j])],
                  !.waveformL[e.waveformIdx] = samplePos,
                  !.waveformR[e.waveformIdx] = samplePos,
                  !.waveformIdx = (e.waveformIdx + 1) % waveformSize,
                  !.channels = r.channels,
                  !.master = r.master]

\* one iteration of the sample loop: the engine after it
RenderSampleEngine(e, r) ==
    LET samplePos == e.samplePos
        step == (samplePos \div r.samplesPerBeat) % 16
        pattern == BeatPresets[r.patternIdx + 1]
        onBeat == samplePos % r.samplesPerBeat = 0
        env1 == [j \in DOMAIN e.envelopes |->
                    IF onBeat /\ PatternHit(pattern, j, step) THEN 0 ELSE e.envelopes[j]]
    IN  [e EXCEPT !.samplePos = samplePos + 1,
                  !.phases = PhaseAdvance(e.phases, r),
                  !.CurrentStep = step,
                  !.envelopes = [j \in DOMAIN env1 |-> EnvDecay(env1[j])],
                  !.waveformL[e.waveformIdx] = samplePos,
                  !.waveformR[e.waveformIdx] = samplePos,
                  !.waveformIdx = (e.waveformIdx + 1) % waveformSize]

\* a <= b, a - b and |a| for fractions
RatLE(a, b) == a.num * b.den <= b.num * a.den

RatSub(a, b) == Rat((a.num * b.den) - (b.num * a.den), a.den * b.den)

RatAbs(a) == [num |-> Abs(a.num), den |-> a.den]

\* variant: the cubic is applied up to |x| = 2
softClip_WideCubic(x) ==
    IF x.num > 2 * x.den THEN Rat(1, 1)
    ELSE IF x.num < -(2 * x.den) THEN Rat(-1, 1)
    ELSE Rat((3 * x.num * x.den * x.den) - (x.num * x.num * x.num),
             2 * x.den * x.den * x.den)

\* softClip: 1 above 1, -1 below -1, and 1.5*x - 0.5*x*x*x between, computed
\* on the fraction x = num/den
softClip(x) ==
    IF x.num > x.den THEN Rat(1, 1)
    ELSE IF x.num < -x.den THEN Rat(-1, 1)
    ELSE Rat((3 * x.num * x.den * x.den) - (x.num * x.num * x.num),
             2 * x.den * x.den * x.den)

\* variant: the ring is returned as it is stored, from index 0
GetWaveform_Unrotated(e) ==
    [left  |-> [i \in 0..(waveformSize - 1) |-> e.waveformL[i]],
     right |-> [i \in 0..(waveformSize - 1) |-> e.waveformR[i]]]

\* GetWaveform: new left and right slices of waveformSize entries, entry i
\* copied from ring index (waveformIdx + i) % waveformSize of waveformL and
\* of waveformR
GetWaveform(e) ==
    [left  |-> [i \in 0..(waveformSize - 1) |->
                   e.waveformL[(e.waveformIdx + i) % waveformSize]],
     right |-> [i \in 0..(waveformSize - 1) |->
                   e.waveformR[(e.waveformIdx + i) % waveformSize]]]

\* one iteration of the sample loop: the frame after it; the four bytes of
\* frame i are written at i*4, and after the last frame Read returns len(buf)
RenderSampleFrame(e, r) ==
    LET acc == Accumulated(r.channels, r.anySolo)
        step == (e.samplePos \div r.samplesPerBeat) % 16
        newStep == e.samplePos = 0 \/ step # e.CurrentStep
    IN  [r EXCEPT !.contrib = acc,
                  !.mix = [c \in acc |-> [Volume |-> r.channels[c].Volume,
                                          Pan |-> r.channels[c].Pan]],
                  !.gain = r.master,
                  !.rendered = TRUE,
                  !.written = (r.i * 4) + 4,
                  !.i = r.i + 1,
                  !.pc = IF r.i + 1 < r.samples THEN "loop" ELSE "idle",
                  !.ret = IF r.i + 1 < r.samples THEN NoValue ELSE r.nbytes,
                  !.stepStart = IF newStep THEN e.samplePos ELSE r.stepStart,
                  !.stepLen = IF newStep THEN r.samplesPerBeat ELSE r.stepLen]

\* the channels whose envelope the trigger section can re-arm
Percussive == {ChKick, ChSnare, ChHiHat, ChBass}

\* the latest step boundary k' <= k at which the pattern has a hit for
\* channel j, or -1
RECURSIVE LastHit(_, _, _)
LastHit(pattern, j, k) ==
    IF k < 0 THEN -1
    ELSE IF PatternHit(pattern, j, k % 16) THEN k
    ELSE LastHit(pattern, j, k - 1)

\* the engine e, whose sample counter is 0, after n iterations of the sample
\* loop with e's BPM and pattern: the loop's effect in closed form
Played(e, n) ==
    IF n = 0 THEN e
    ELSE LET spb == SamplesPerBeat(e.BPM)
             k == (n - 1) \div spb
             pattern == BeatPresets[e.PatternIndex + 1]
         IN  [e EXCEPT !.samplePos = n,
                       !.phases =
                           [c \in DOMAIN e.phases |->
                               IF c \in Accumulated(e.channels, AnySoloSnapshot(e.channels))
                               THEN n ELSE 0],
                       !.CurrentStep = k % 16,
                       !.envelopes =
                           [j \in DOMAIN e.envelopes |->
                               IF j \in Percussive /\ LastHit(pattern, j, k) >= 0
                               THEN n - (LastHit(pattern, j, k) * spb)
                               ELSE EnvZero],
                       !.waveformL =
                           [w \in DOMAIN e.waveformL |->
                               IF w > n - 1 THEN NoValue
                               ELSE (n - 1) - (((n - 1) - w) % waveformSize)],
                       !.waveformR =
                           [w \in DOMAIN e.waveformR |->
                               IF w > n - 1 THEN NoValue
                               ELSE (n - 1) - (((n - 1) - w) % waveformSize)],
                       !.waveformIdx = n % waveformSize]

(***************************************************************************)
(* Steps                                                                   *)
(***************************************************************************)
\* old: the value the operation replaced (the BPM, the pattern index, the
\* queue length), where a property needs it
Op(name, ch, cc, val, flag) ==
    [op |-> name, ch |-> ch, cc |-> cc, val |-> val, flag |-> flag, old |-> 0]

OpOld(name, val, old) ==
    [op |-> name, ch |-> 0, cc |-> 0, val |-> val, flag |-> FALSE, old |-> old]

\* the latest CC7 value per channel after the messages of out were sent
RECURSIVE Sent(_, _)
Sent(lv, out) ==
    IF out = <<>> THEN lv
    ELSE Sent(IF Head(out).Controller = CCVolume
              THEN [lv EXCEPT ![Head(out).Channel] = Head(out).Value]
              ELSE lv,
              Tail(out))

\* a control operation whose result is w
Control(op, w) ==
    /\ budget > 0
    /\ budget' = budget - 1
    /\ state' = w.s
    /\ engine' = w.e
    /\ outbox' = w.out
    /\ lastVol' = Sent(lastVol, w.out)
    /\ last' = op
    /\ UNCHANGED <<proc, returned, handler, rd, nrecv>>

KeyDeltas == {5, -5, 1, -1}

KeySelectNext ==
    Control(Op("SelectNext", 0, 0, 0, FALSE), World(SelectNext(state), engine, <<>>))

KeySelectPrev ==
    Control(Op("SelectPrev", 0, 0, 0, FALSE), World(SelectPrev(state), engine, <<>>))

KeyAdjustVolume ==
    \E delta \in KeyDeltas :
        Control(Op("AdjustVolume", state.SelectedIndex, CCVolume, delta, FALSE),
                AdjustVolume(state, engine, handler, delta))

KeyAdjustPan ==
    \E delta \in KeyDeltas :
        Control(Op("AdjustPan", state.SelectedIndex, CCPan, delta, FALSE),
                AdjustPan(state, engine, handler, delta))

KeyToggleMute ==
    Control(Op("ToggleMute", state.SelectedIndex, 0, 0, FALSE),
            ToggleMute(state, engine, handler))

KeyToggleSolo ==
    Control(Op("ToggleSolo", state.SelectedIndex, 0, 0, FALSE),
            ToggleSolo(state, engine, handler))

KeyReset ==
    Control(Op("Reset", state.SelectedIndex, 0, 0, FALSE), ResetChannel(state, engine))

\* Update(MidiMsg): an inbound control message applied by handleMidiCC
InboundChannels == {0, 7, 8}
InboundControllers == {CCVolume, CCPan, CCExpression}
InboundValues == {0, 127}

UpdateMidiMsg ==
    \E ch \in InboundChannels, cc \in InboundControllers, val \in InboundValues :
        Control(Op("MidiCC", ch, cc, val, FALSE),
                HandleMidiCC(state, engine, CCMessage(ch, cc, val)))

\* State.SetChannelVolume / State.SetChannelPan called with any channel id
SetterIds == {-1, 3, 8}

CallSetChannelVolume ==
    \E id \in SetterIds, val \in InboundValues :
        Control(Op("SetChannelVolume", id, CCVolume, val, FALSE),
                SetChannelVolume(state, engine, id, val))

CallSetChannelPan ==
    \E id \in SetterIds, val \in InboundValues :
        Control(Op("SetChannelPan", id, CCPan, val, FALSE),
                SetChannelPan(state, engine, id, val))

\* State.AdjustVolume / AdjustPan / AdjustMasterVolume called with any delta
AdjustDeltas == {-200, -5, -1, 1, 5, 200}

CallAdjustVolume ==
    \E delta \in AdjustDeltas :
        Control([Op("AdjustVolume", state.SelectedIndex, CCVolume, delta, FALSE)
                 EXCEPT !.old = state.Channels[state.SelectedIndex].Volume],
                AdjustVolume(state, engine, handler, delta))

CallAdjustPan ==
    \E delta \in AdjustDeltas :
        Control([Op("AdjustPan", state.SelectedIndex, CCPan, delta, FALSE)
                 EXCEPT !.old = state.Channels[state.SelectedIndex].Pan],
                AdjustPan(state, engine, handler, delta))

CallAdjustMasterVolume ==
    \E delta \in AdjustDeltas :
        Control(OpOld("AdjustMasterVolume", delta, state.MasterVolume),
                AdjustMasterVolume(state, engine, delta))

\* the "enter" key of the device view: MidiHandler.Connect
DoConnect ==
    \E inP \in {Nil, "in"}, outP \in {Nil, "out"}, openOK \in BOOLEAN, listenOK \in BOOLEAN :
        /\ budget > 0
        /\ budget' = budget - 1
        /\ handler' = Connect(handler, inP, outP, openOK, listenOK)
        /\ returned' = <<ConnectError(handler, inP, outP, openOK, listenOK)>>
        /\ last' = Op("Connect", 0, 0, 0, handler'.connected)
        /\ outbox' = <<>>
        /\ UNCHANGED <<proc, state, engine, rd, lastVol, nrecv>>

\* Connect to an output port only, which opens
ConnectOutput ==
    /\ budget > 0
    /\ budget' = budget - 1
    /\ handler' = Connect(handler, Nil, "out", TRUE, TRUE)
    /\ returned' = <<ConnectError(handler, Nil, "out", TRUE, TRUE)>>
    /\ last' = Op("Connect", 0, 0, 0, handler'.connected)
    /\ outbox' = <<>>
    /\ UNCHANGED <<proc, state, engine, rd, lastVol, nrecv>>

Init0(b) ==
    /\ state = NewState(NumChannels, TRUE)
    /\ engine = NewStateEngine(NumChannels)
    /\ handler = NewHandler
    /\ rd = IdleFrame
    /\ last = Op("init", 0, 0, 0, FALSE)
    /\ outbox = <<>>
    /\ lastVol = [c \in 0..(NumChannels - 1) |-> NoValue]
    /\ nrecv = 0
    /\ budget = b
    /\ returned = <<>>
    /\ proc = ProcInit

(***************************************************************************)
(* SpecMixer: the control surface, inbound messages and the coordination   *)
(* layer's setters, from the state NewState(8) builds.                     *)
(***************************************************************************)
InitMixer == Init0(MaxMixerOps)

NextMixer ==
    \/ KeySelectNext
    \/ KeySelectPrev
    \/ KeyAdjustVolume
    \/ KeyAdjustPan
    \/ KeyToggleMute
    \/ KeyToggleSolo
    \/ KeyReset
    \/ UpdateMidiMsg
    \/ CallSetChannelVolume
    \/ CallSetChannelPan
    \/ CallAdjustMasterVolume
    \/ DoConnect

SpecMixer == InitMixer /\ [][NextMixer]_vars

(***************************************************************************)
(* SpecSolo: mute / solo / volume keys with an output port connected.      *)
(***************************************************************************)
InitSolo == Init0(MaxSoloOps)

NextSolo ==
    \/ ConnectOutput
    \/ KeySelectNext
    \/ KeySelectPrev
    \/ KeyToggleMute
    \/ KeyToggleSolo
    \/ KeyAdjustVolume

SpecSolo == InitSolo /\ [][NextSolo]_vars

(***************************************************************************)
(* Properties of the coordination layer                                    *)
(***************************************************************************)
HasDestination == handler.outPort # Nil /\ handler.connected

\* the engine's audibility rule on the engine's own channel flags
EngineAudible(c) ==
    IF \E d \in DOMAIN engine.channels : engine.channels[d].Solo
    THEN engine.channels[c].Solo /\ ~engine.channels[c].Mute
    ELSE ~engine.channels[c].Mute

\* C2: after a ToggleMute or a ToggleSolo with a destination connected, the
\* volume most recently sent for every channel is the channel's Volume when
\* the channel is audible under the engine's rule, and 0 otherwise.
C2_OutboundMatchesAudibility ==
    (last.op \in {"ToggleMute", "ToggleSolo"} /\ HasDestination) =>
        \A c \in DOMAIN state.Channels :
            lastVol[c] # NoValue =>
                lastVol[c] = IF EngineAudible(c) THEN state.Channels[c].Volume ELSE 0

\* C3: after any sequence of control-surface and inbound operations the
\* engine's ChannelState of every channel is the conversion of its
\* MixerChannel.
C3_EngineMirrorsMixer ==
    \A i \in DOMAIN state.Channels :
        /\ engine.channels[i].Volume = Rat(state.Channels[i].Volume, 127)
        /\ engine.channels[i].Pan = Rat(state.Channels[i].Pan - 64, 64)
        /\ engine.channels[i].Mute = state.Channels[i].Mute
        /\ engine.channels[i].Solo = state.Channels[i].Solo

\* C8: State.SetChannelVolume / SetChannelPan with an id outside
\* [0, len(Channels)) and an inbound message whose channel is >= len(Channels)
\* change no MixerChannel and no engine ChannelState and send nothing.
C8_OutOfRangeIgnored ==
    [][( \/ /\ last'.op \in {"SetChannelVolume", "SetChannelPan"}
            /\ (last'.ch < 0 \/ last'.ch >= NumCh(state))
         \/ /\ last'.op = "MidiCC"
            /\ last'.ch >= NumCh(state) )
       => /\ state'.Channels = state.Channels
          /\ engine'.channels = engine.channels
          /\ outbox' = <<>>]_vars

C8_Witness ==
    /\ last.op = "SetChannelVolume"
    /\ last.ch < 0
    /\ HasDestination
    /\ budget = 0

\* C9: an inbound triple (c, k, v) with c in 0..7 sets exactly channel c's
\* volume to v when k = 7, exactly channel c's pan to v when k = 10, and
\* nothing for any other k; the other channels, c's other fields, the master
\* volume and the selection are unchanged.
C9_InboundFrame ==
    [][(last'.op = "MidiCC" /\ last'.ch \in 0..7) =>
        LET c == last'.ch
            k == last'.cc
            v == last'.val
        IN  /\ \A i \in DOMAIN state.Channels :
                  i # c => state'.Channels[i] = state.Channels[i]
            /\ DOMAIN state'.Channels = DOMAIN state.Channels
            /\ state'.Channels[c].Volume = IF k = 7 THEN v ELSE state.Channels[c].Volume
            /\ state'.Channels[c].Pan = IF k = 10 THEN v ELSE state.Channels[c].Pan
            /\ state'.Channels[c].Mute = state.Channels[c].Mute
            /\ state'.Channels[c].Solo = state.Channels[c].Solo
            /\ state'.Channels[c].ID = state.Channels[c].ID
            /\ state'.MasterVolume = state.MasterVolume
            /\ state'.SelectedIndex = state.SelectedIndex]_vars

C9_Witness ==
    /\ last.op = "MidiCC"
    /\ last.ch = 7
    /\ last.cc = CCPan
    /\ state.Channels[7].Pan = 127
    /\ state.Channels[7].Mute
    /\ state.Channels[0].Volume = 0

(***************************************************************************)
(* SpecAdjust: the relative adjustments with any delta, with mute / solo   *)
(* and an output port.                                                     *)
(***************************************************************************)
InitAdjust == Init0(MaxAdjustOps)

NextAdjust ==
    \/ ConnectOutput
    \/ KeySelectNext
    \/ KeyToggleMute
    \/ KeyToggleSolo
    \/ CallAdjustVolume
    \/ CallAdjustPan
    \/ CallAdjustMasterVolume

SpecAdjust == InitAdjust /\ [][NextAdjust]_vars

\* min(max(x, 0), 127)
MinMax127(x) == IF x > 127 THEN 127 ELSE IF x < 0 THEN 0 ELSE x

\* C11: AdjustVolume, AdjustPan and AdjustMasterVolume store
\* min(max(old + delta, 0), 127) for every delta, so the mixer's volumes, pans
\* and master volume stay within [0,127], and the same operation leaves the
\* converted new value in the engine.
C11_AdjustSaturates ==
    /\ [](/\ state.MasterVolume \in 0..127
          /\ \A i \in DOMAIN state.Channels :
                 state.Channels[i].Volume \in 0..127 /\ state.Channels[i].Pan \in 0..127)
    /\ [][last'.op = "AdjustVolume" =>
            LET new == MinMax127(state.Channels[last'.ch].Volume + last'.val)
            IN  /\ state'.Channels[last'.ch].Volume = new
                /\ engine'.channels[last'.ch].Volume = Rat(new, 127)]_vars
    /\ [][last'.op = "AdjustPan" =>
            LET new == MinMax127(state.Channels[last'.ch].Pan + last'.val)
            IN  /\ state'.Channels[last'.ch].Pan = new
                /\ engine'.channels[last'.ch].Pan = Rat(new - 64, 64)]_vars
    /\ [][last'.op = "AdjustMasterVolume" =>
            LET new == MinMax127(state.MasterVolume + last'.val)
            IN  /\ state'.MasterVolume = new
                /\ engine'.master = Rat(new, 127)]_vars

C11_Witness ==
    /\ last.op = "AdjustVolume"
    /\ last.old = 1
    /\ last.val = -5
    /\ state.Channels[last.ch].Volume = 0
    /\ engine.channels[last.ch].Volume = Rat(0, 127)

\* the one message an adjustment of the selected channel would send
AdjustMessage ==
    CCMessage(last.ch, last.cc,
              IF last.op = "AdjustVolume" THEN state.Channels[last.ch].Volume
                                          ELSE state.Channels[last.ch].Pan)

\* C12 as claimed: with a destination connected, every AdjustVolume and every
\* AdjustPan sends exactly one message on the channel's number (controller 7
\* or 10) with the new clamped value, whatever the mute / solo flags.
C12_AdjustAlwaysSends ==
    (last.op \in {"AdjustVolume", "AdjustPan"} /\ HasDestination) =>
        outbox = <<AdjustMessage>>

\* C12 as amended: with a destination connected, every AdjustPan, and every
\* AdjustVolume of a channel that is not muted, sends exactly that one
\* message, whatever the solo flags; AdjustVolume of a muted channel sends
\* nothing.
C12_AdjustSendsUnlessMuted ==
    (last.op \in {"AdjustVolume", "AdjustPan"} /\ HasDestination) =>
        outbox = IF last.op = "AdjustVolume" /\ state.Channels[last.ch].Mute
                 THEN <<>> ELSE <<AdjustMessage>>

C12_Witness ==
    /\ last.op = "AdjustVolume"
    /\ HasDestination
    /\ state.Channels[last.ch].Mute
    /\ state.Channels[last.ch].Volume = 105
    /\ engine.channels[last.ch].Volume = Rat(105, 127)
    /\ outbox = <<>>

(***************************************************************************)
(* SpecTempo: tempo and pattern selection.                                 *)
(***************************************************************************)
\* a call on the engine alone
EngineCall(op, e) ==
    /\ engine' = e
    /\ last' = op
    /\ outbox' = <<>>
    /\ UNCHANGED <<proc, returned, state, handler, rd, lastVol, nrecv>>

BPMInputs == {10, 59, 60, 61, 120, 199, 200, 201, 250}
PatternInputs == {-9, -8, -1, 0, 3, 7, 8, 9, 16}

CallSetBPM ==
    \E n \in BPMInputs :
        /\ EngineCall(OpOld("SetBPM", n, engine.BPM), EngineSetBPM(engine, n))
        /\ UNCHANGED budget

CallAdjustBPM ==
    \E delta \in KeyDeltas :
        /\ EngineCall(OpOld("AdjustBPM", delta, StateGetBPM(state, engine)),
                      AdjustBPM(state, engine, delta))
        /\ UNCHANGED budget

CallSetPattern ==
    \E idx \in PatternInputs :
        /\ EngineCall(OpOld("SetPattern", idx, engine.PatternIndex),
                      EngineSetPattern(engine, idx))
        /\ UNCHANGED budget

CallNextPattern ==
    /\ EngineCall(OpOld("NextPattern", 0, StateGetPatternIndex(state, engine)),
                  StateNextPattern(state, engine))
    /\ UNCHANGED budget

CallPrevPattern ==
    /\ EngineCall(OpOld("PrevPattern", 0, StateGetPatternIndex(state, engine)),
                  StatePrevPattern(state, engine))
    /\ UNCHANGED budget

InitTempo == Init0(0)

NextTempo ==
    \/ CallSetBPM
    \/ CallAdjustBPM
    \/ CallSetPattern
    \/ CallNextPattern
    \/ CallPrevPattern

SpecTempo == InitTempo /\ [][NextTempo]_vars

\* min(max(n, 60), 200)
ClampBPM(n) == IF n < 60 THEN 60 ELSE IF n > 200 THEN 200 ELSE n

\* C4: the BPM is always within [60,200]; it starts at 120, SetBPM(n) stores
\* min(max(n,60),200) and AdjustBPM(delta) stores the clamp of the current BPM
\* plus delta.
C4_BPMClamped ==
    /\ engine.BPM \in 60..200
    /\ last.op = "init" => engine.BPM = 120
    /\ last.op = "SetBPM" => engine.BPM = ClampBPM(last.val)
    /\ (last.op = "SetBPM" /\ last.val = 250) => engine.BPM = 200
    /\ (last.op = "SetBPM" /\ last.val = 10) => engine.BPM = 60
    /\ last.op = "AdjustBPM" => engine.BPM = ClampBPM(last.old + last.val)

C4_Witness ==
    /\ last.op = "AdjustBPM"
    /\ last.old = 199
    /\ last.val = 5
    /\ engine.BPM = 200

\* n applications of NextPattern
RECURSIVE NextPatternTimes(_, _)
NextPatternTimes(e, n) ==
    IF n = 0 THEN e ELSE NextPatternTimes(EngineNextPattern(e), n - 1)

\* C5: from any pattern index, NextPattern applied len(BeatPresets) times
\* returns to the index, and PrevPattern and NextPattern undo each other in
\* both orders, the ends 0 and len-1 included.
C5_PatternCycle ==
    /\ NextPatternTimes(engine, NumPresets).PatternIndex = engine.PatternIndex
    /\ \A k \in 1..(NumPresets - 1) :
           NextPatternTimes(engine, k).PatternIndex # engine.PatternIndex
    /\ EnginePrevPattern(EngineNextPattern(engine)).PatternIndex = engine.PatternIndex
    /\ EngineNextPattern(EnginePrevPattern(engine)).PatternIndex = engine.PatternIndex
    /\ last.op = "NextPattern" => EnginePrevPattern(engine).PatternIndex = last.old
    /\ last.op = "PrevPattern" => EngineNextPattern(engine).PatternIndex = last.old

C5_Witness ==
    /\ last.op = "PrevPattern"
    /\ last.old = 0
    /\ engine.PatternIndex = NumPresets - 1

\* C6 as claimed: SetPattern(idx) leaves the pattern index at idx mod
\* len(BeatPresets) for every integer idx.
C6_SetPatternModulo ==
    last.op = "SetPattern" => engine.PatternIndex = last.val % NumPresets

\* C6 as amended: SetPattern(idx) selects idx when 0 <= idx < len(BeatPresets)
\* and leaves the pattern index unchanged for every other idx.
C6_SetPatternInRangeOnly ==
    last.op = "SetPattern" =>
        engine.PatternIndex =
            IF last.val >= 0 /\ last.val < NumPresets THEN last.val ELSE last.old

C6_Witness ==
    /\ last.op = "SetPattern"
    /\ last.val = 9
    /\ last.old = 3
    /\ engine.PatternIndex = 3

(***************************************************************************)
(* SpecEngine: the engine's setters called with any index.                 *)
(***************************************************************************)
EngineIdx == {-1, 0, 7, 8}
EngineValues == {0, 127}

\* a budgeted call on the engine alone
EngineControl(op, e) ==
    /\ budget > 0
    /\ budget' = budget - 1
    /\ EngineCall(op, e)

CallEngineSetChannelVolume ==
    \E idx \in EngineIdx, v \in EngineValues :
        EngineControl(Op("EngineSetChannelVolume", idx, 0, v, FALSE),
                      EngineSetChannelVolume(engine, idx, v))

CallEngineSetChannelPan ==
    \E idx \in EngineIdx, v \in EngineValues :
        EngineControl(Op("EngineSetChannelPan", idx, 0, v, FALSE),
                      EngineSetChannelPan(engine, idx, v))

CallEngineSetChannelMute ==
    \E idx \in EngineIdx, b \in BOOLEAN :
        EngineControl(Op("EngineSetChannelMute", idx, 0, 0, b),
                      EngineSetChannelMute(engine, idx, b))

CallEngineSetChannelSolo ==
    \E idx \in EngineIdx, b \in BOOLEAN :
        EngineControl(Op("EngineSetChannelSolo", idx, 0, 0, b),
                      EngineSetChannelSolo(engine, idx, b))

CallEngineSetMasterVolume ==
    \E v \in EngineValues :
        EngineControl(Op("EngineSetMasterVolume", 0, 0, v, FALSE),
                      EngineSetMasterVolume(engine, v))

CallEngineSetBPM ==
    \E n \in {10, 250} :
        EngineControl(OpOld("SetBPM", n, engine.BPM), EngineSetBPM(engine, n))

CallEngineNextPattern ==
    EngineControl(OpOld("NextPattern", 0, engine.PatternIndex), EngineNextPattern(engine))

CallEngineClose ==
    EngineControl(Op("EngineClose", 0, 0, 0, FALSE), EngineClose(engine))

\* Engine.SetPattern with a preset whose hits at step 0 differ from preset 0's
\* (2) and with one whose hits at step 0 are the same (7)
RenderPatterns == {2, 7}

CallEngineSetPattern ==
    \E idx \in RenderPatterns :
        EngineControl(OpOld("SetPattern", idx, engine.PatternIndex),
                      EngineSetPattern(engine, idx))

InitEngine == Init0(MaxEngineOps)

NextEngine ==
    \/ CallEngineSetChannelVolume
    \/ CallEngineSetChannelPan
    \/ CallEngineSetChannelMute
    \/ CallEngineSetChannelSolo
    \/ CallEngineSetMasterVolume
    \/ CallEngineSetBPM
    \/ CallEngineNextPattern

SpecEngine == InitEngine /\ [][NextEngine]_vars

ChannelSetterOps ==
    {"EngineSetChannelVolume", "EngineSetChannelPan",
     "EngineSetChannelMute", "EngineSetChannelSolo"}

\* C7: SetChannelVolume / Pan / Mute / Solo of the engine with an index outside
\* [0, channelCount) leave the whole engine state unchanged.
C7_EngineSetterOutOfRange ==
    [][(/\ last'.op \in ChannelSetterOps
        /\ (last'.ch < 0 \/ last'.ch >= Cardinality(DOMAIN engine.channels)))
       => engine' = engine]_vars

C7_Witness ==
    /\ last.op = "EngineSetChannelSolo"
    /\ last.ch = 8
    /\ last.flag
    /\ engine.channels[7].Volume = Rat(0, 127)
    /\ ~engine.channels[7].Solo

(***************************************************************************)
(* SpecRender: audioStream.Read, one locked section per step, interleaved  *)
(* with mute / solo setters and Close.                                     *)
(***************************************************************************)
BufferSizes == {0, 4, 6, 8}

\* Read is entered: the snapshot section
ReadBegin ==
    \E nbytes \in BufferSizes :
        /\ rd.pc = "idle"
        /\ engine.samplePos + (nbytes \div 4) <= rd.origin + MaxSamples
        /\ rd' = ReadSnapshot(engine, rd, nbytes)
        /\ last' = Op("Read", 0, 0, nbytes, FALSE)
        /\ UNCHANGED <<proc, returned, state, engine, handler, outbox, lastVol, nrecv, budget>>

\* the BPM / pattern section
ReadParams ==
    /\ rd.pc = "params"
    /\ rd' = ReadTempo(engine, rd)
    /\ last' = Op("ReadParams", 0, 0, 0, FALSE)
    /\ UNCHANGED <<proc, returned, state, engine, handler, outbox, lastVol, nrecv, budget>>

\* one iteration of the sample loop
ReadSample ==
    /\ rd.pc = "loop"
    /\ engine' = RenderSampleEngine(engine, rd)
    /\ rd' = RenderSampleFrame(engine, rd)
    /\ last' = Op("ReadSample", 0, 0, engine.samplePos, FALSE)
    /\ UNCHANGED <<proc, returned, state, handler, outbox, lastVol, nrecv, budget>>

InitRender == Init0(MaxRenderOps)

NextRender ==
    \/ ReadBegin
    \/ ReadParams
    \/ ReadSample
    \/ CallEngineSetChannelMute
    \/ CallEngineSetChannelSolo
    \/ CallEngineClose

SpecRender == InitRender /\ [][NextRender]_vars

\* C1: in every rendered sample a channel is accumulated into the stereo sum
\* iff it is audible under the solo rule on the block's snapshot: with any
\* solo set, solo and not mute; otherwise not mute.
C1_RenderedIffAudible ==
    rd.rendered =>
        \A c \in DOMAIN rd.channels :
            (c \in rd.contrib) <=>
                IF \E d \in DOMAIN rd.channels : rd.channels[d].Solo
                THEN rd.channels[c].Solo /\ ~rd.channels[c].Mute
                ELSE ~rd.channels[c].Mute

C1_Witness ==
    /\ rd.rendered
    /\ rd.channels[0].Solo
    /\ rd.channels[0].Mute
    /\ rd.channels # engine.channels
    /\ rd.contrib = {}

\* C13: once Close has run, every Read entered afterwards zero-fills its whole
\* buffer, returns the buffer length and leaves the engine (sample counter,
\* step, envelopes) as it was; running never becomes true again and a second
\* Close changes nothing in the engine; a Read that had taken its snapshot
\* before Close goes on rendering its samples.
C13_CloseSticky ==
    /\ [][(last'.op = "Read" /\ ~engine.running) =>
            /\ rd'.silence
            /\ rd'.written = last'.val
            /\ rd'.ret = last'.val
            /\ rd'.pc = "idle"
            /\ engine' = engine]_vars
    /\ [][~engine.running => ~engine'.running]_vars
    /\ [][last'.op = "EngineClose" =>
            /\ ~engine'.running
            /\ ~engine.running => engine' = engine]_vars
    /\ []((~engine.running /\ rd.pc \in {"params", "loop"}) => rd.running)
    /\ []((~engine.running /\ rd.pc = "loop") => ENABLED ReadSample)
    /\ [][(last'.op = "ReadSample" /\ ~engine.running) =>
            /\ engine'.samplePos = engine.samplePos + 1
            /\ ~rd'.silence
            /\ rd'.written = rd.written + 4]_vars

C13_Witness ==
    /\ last.op = "Read"
    /\ last.val = 6
    /\ ~engine.running
    /\ rd.silence
    /\ rd.written = 6
    /\ rd.ret = 6
    /\ engine.samplePos = 2
    /\ budget = MaxRenderOps - 2

\* C14: when an active Read of a buffer of n bytes returns, it has written
\* all n bytes and returns n.
C14_ActiveRenderFillsBuffer ==
    (rd.ret # NoValue /\ ~rd.silence) => (rd.written = rd.nbytes /\ rd.ret = rd.nbytes)

(***************************************************************************)
(* SpecBlock: audioStream.Read interleaved with the volume, mute, master   *)
(* volume and pattern setters.                                             *)
(***************************************************************************)
InitBlock == Init0(MaxBlockOps)

NextBlock ==
    \/ ReadBegin
    \/ ReadParams
    \/ ReadSample
    \/ CallEngineSetChannelVolume
    \/ CallEngineSetChannelMute
    \/ CallEngineSetMasterVolume
    \/ CallEngineSetPattern

SpecBlock == InitBlock /\ [][NextBlock]_vars

\* C19 as claimed: at every step boundary rendered, a percussive envelope is
\* re-armed iff the pattern selected in the engine at that moment has a hit
\* for its role at the step, also within a block entered before the change.
C19_PatternAtNextBoundary ==
    [][(last'.op = "ReadSample" /\ engine.samplePos % rd.samplesPerBeat = 0) =>
        \A j \in Percussive :
            (engine'.envelopes[j] = 1) <=>
                PatternHit(BeatPresets[engine.PatternIndex + 1], j, engine'.CurrentStep)]_vars

\* C19 as amended: Read takes the pattern index once, in its BPM / pattern
\* section; every step boundary of the block consults that pattern, and a
\* pattern change takes effect with the first block whose BPM / pattern
\* section runs after the change.
C19_PatternAtNextBlock ==
    /\ [][last'.op = "ReadParams" => rd'.patternIdx = engine.PatternIndex]_vars
    /\ [][last'.op \in {"Read", "ReadSample", "SetPattern"} =>
            rd'.patternIdx = rd.patternIdx]_vars
    /\ [][(last'.op = "ReadSample" /\ engine.samplePos % rd.samplesPerBeat = 0) =>
            \A j \in Percussive :
                (engine'.envelopes[j] = 1) <=>
                    PatternHit(BeatPresets[rd.patternIdx + 1], j, engine'.CurrentStep)]_vars

C19_Witness ==
    /\ last.op = "ReadSample"
    /\ last.val = 0
    /\ engine.PatternIndex = 2
    /\ rd.patternIdx = 0
    /\ engine.envelopes[ChHiHat] = 1

\* the values that scaled the latest sample are those of the channels cs and
\* the master volume m
SampleUses(cs, m) ==
    /\ rd.gain = m
    /\ rd.contrib = Accumulated(cs, AnySoloSnapshot(cs))
    /\ rd.mix = [c \in rd.contrib |-> [Volume |-> cs[c].Volume, Pan |-> cs[c].Pan]]

EngineSetterOps ==
    ChannelSetterOps \cup {"EngineSetMasterVolume"}

\* C20 as claimed: every rendered sample uses the channel values and the
\* master volume the engine holds when the sample is generated, so a setter
\* that has returned is effective on the next sample, also within a block
\* entered before it.
C20_SetterNextSample ==
    last.op = "ReadSample" => SampleUses(engine.channels, engine.master)

\* C20 as amended: Read copies the channels and the master volume once, at
\* entry; every sample of the block uses that copy, so a setter that has
\* returned is effective from the first sample of the next block entered.
C20_SetterNextBlock ==
    /\ [][(last'.op = "Read" /\ engine.running) =>
            (rd'.channels = engine.channels /\ rd'.master = engine.master)]_vars
    /\ [][last'.op \in {"ReadParams", "ReadSample"} \cup EngineSetterOps =>
            (rd'.channels = rd.channels /\ rd'.master = rd.master)]_vars
    /\ [](last.op = "ReadSample" => SampleUses(rd.channels, rd.master))

C20_Witness ==
    /\ last.op = "ReadSample"
    /\ rd.i = 2
    /\ rd.gain = Rat(100, 127)
    /\ engine.master = Rat(0, 127)
    /\ engine.channels[0].Mute
    /\ 0 \in rd.contrib

(***************************************************************************)
(* SpecSeq: the sequencer over a whole bar.  A behaviour starts with the   *)
(* engine as the sample loop leaves it after n0 samples at a fixed BPM and *)
(* pattern, n0 just before a step boundary or inside a step, and renders   *)
(* the next samples in blocks of every split.                              *)
(***************************************************************************)
StartBPMs == {120, 200}
StartPatterns == {0, 1}
StartSteps == 0..16
StartOffsets == {-2, 3349}

\* the sample counter offset by off from the k-th step boundary
StartSample(bpm, k, off) ==
    LET n == (k * SamplesPerBeat(bpm)) + off IN IF n < 0 THEN 0 ELSE n

\* the engine of NewState with the BPM and the pattern set before playback
\* and n0 samples rendered; b control operations are allowed afterwards
InitAt(b) ==
    \E bpm \in StartBPMs, p \in StartPatterns, k \in StartSteps, off \in StartOffsets :
        LET n0 == StartSample(bpm, k, off)
            spb == SamplesPerBeat(bpm)
            e0 == EngineSetPattern(EngineSetBPM(NewStateEngine(NumChannels), bpm), p)
        IN  /\ state = NewState(NumChannels, TRUE)
            /\ engine = Played(e0, n0)
            /\ handler = NewHandler
            /\ rd = [IdleFrame EXCEPT
                         !.origin = n0,
                         !.stepStart = IF n0 = 0 THEN 0 ELSE ((n0 - 1) \div spb) * spb,
                         !.stepLen = IF n0 = 0 THEN 0 ELSE spb]
            /\ last = Op("init", 0, 0, n0, FALSE)
            /\ outbox = <<>>
            /\ lastVol = [c \in 0..(NumChannels - 1) |-> NoValue]
            /\ nrecv = 0
            /\ budget = b
            /\ returned = <<>>
            /\ proc = ProcInit

InitSeq == InitAt(0)

NextSeq ==
    \/ ReadBegin
    \/ ReadParams
    \/ ReadSample

SpecSeq == InitSeq /\ [][NextSeq]_vars

\* the sample loop keeps the closed form: the engine is what Played gives for
\* its own sample counter (in SpecSeq, and in SpecRender from NewState)
PlayedInvariant == engine = Played(engine, engine.samplePos)

\* C15: with the BPM fixed, samplesPerStep is sampleRate*60/BPM/4 (5512 at
\* 120); the step of sample n is (n / samplesPerStep) mod 16; from one sample
\* to the next the step stays, or advances by one (mod 16) exactly when n is a
\* multiple of samplesPerStep, and it returns from 15 to 0 exactly at the
\* multiples of 16*samplesPerStep, however the samples are split into blocks.
C15_StepSchedule ==
    /\ []((rd.pc = "loop" /\ engine.BPM = 120) => rd.samplesPerBeat = 5512)
    /\ [][last'.op = "ReadSample" =>
            LET n == engine.samplePos
                sps == ((sampleRate * 60) \div engine.BPM) \div 4
            IN  /\ rd.samplesPerBeat = sps
                /\ engine'.CurrentStep = (n \div sps) % 16
                /\ (n > 0 /\ n % sps # 0) => engine'.CurrentStep = engine.CurrentStep
                /\ (n > 0 /\ n % sps = 0) =>
                       engine'.CurrentStep = (engine.CurrentStep + 1) % 16
                /\ n > 0 => ((engine.CurrentStep = 15 /\ engine'.CurrentStep = 0)
                                <=> n % (16 * sps) = 0)]_vars

C15_Witness ==
    /\ last.op = "ReadSample"
    /\ last.val = 16 * 5512
    /\ engine.BPM = 120
    /\ engine.CurrentStep = 0
    /\ rd.i = 2
    /\ rd.samples = 2

\* the engine's pattern has its kick hits at steps 0, 4, 8, 12 and the BPM is 120
KickOnQuarters ==
    /\ {st \in 0..15 : BeatPresets[engine.PatternIndex + 1].Kick[st + 1] = 1} = {0, 4, 8, 12}
    /\ engine.BPM = 120

\* C16 as claimed: with kick hits at {0,4,8,12} and BPM 120, after sample m is
\* rendered the kick envelope is 0.9997^(m - t), t the latest multiple of
\* 22048 not above m: 1.0 at samples 0 and 22048, 0.9997^n n samples later.
C16_EnvelopeFromTrigger ==
    (last.op = "ReadSample" /\ KickOnQuarters) =>
        engine.envelopes[ChKick] = last.val - ((last.val \div 22048) * 22048)

\* C16 as amended: the decay of a sample is applied after its trigger, so with
\* kick hits at {0,4,8,12} and BPM 120 the kick envelope is 0.9997 once
\* sample 0 or sample 22048 is rendered, and 0.9997^(n+1) n samples after a
\* trigger.
C16_EnvelopeDecayedAtTrigger ==
    (last.op = "ReadSample" /\ KickOnQuarters) =>
        engine.envelopes[ChKick] = (last.val - ((last.val \div 22048) * 22048)) + 1

C16_Witness ==
    /\ last.op = "ReadSample"
    /\ KickOnQuarters
    /\ last.val = 22048
    /\ engine.envelopes[ChKick] = 1
    /\ rd.i = 1

\* C17: rendering sample n sets the envelope of channel j to 1.0 (then decayed
\* by that sample's factor) iff n is a multiple of samplesPerStep, j is kick,
\* snare, hi-hat or bass, and the block's pattern has a hit for j at the step;
\* otherwise, and always for the other four channels, the envelope is only
\* multiplied by the decay factor.
C17_RearmOnlyOnHit ==
    [][last'.op = "ReadSample" =>
        LET n == engine.samplePos
            sps == rd.samplesPerBeat
            step == (n \div sps) % 16
            hits == BeatPresets[rd.patternIdx + 1]
        IN  \A j \in DOMAIN engine.envelopes :
                LET rearm ==
                        /\ n % sps = 0
                        /\ j \in {0, 1, 2, 3}
                        /\ \/ j = 0 /\ hits.Kick[step + 1] = 1
                           \/ j = 1 /\ hits.Snare[step + 1] = 1
                           \/ j = 2 /\ hits.HiHat[step + 1] = 1
                           \/ j = 3 /\ hits.Bass[step + 1] = 1
                IN  /\ rearm => engine'.envelopes[j] = 1
                    /\ ~rearm =>
                           engine'.envelopes[j] =
                               IF engine.envelopes[j] = EnvZero THEN EnvZero
                               ELSE engine.envelopes[j] + 1]_vars

C17_Witness ==
    /\ last.op = "ReadSample"
    /\ last.val = 4 * 5512
    /\ engine.BPM = 120
    /\ engine.PatternIndex = 0
    /\ engine.envelopes[ChSnare] = 1
    /\ engine.envelopes[ChKick] = 22049
    /\ engine.envelopes[ChFX] = EnvZero

(***************************************************************************)
(* SpecTempoChange: SpecSeq with SetBPM called at any point.               *)
(***************************************************************************)
InitTempoChange == InitAt(MaxTempoOps)

NextTempoChange ==
    \/ ReadBegin
    \/ ReadParams
    \/ ReadSample
    \/ CallEngineSetBPM

SpecTempoChange == InitTempoChange /\ [][NextTempoChange]_vars

DriverMessage(n) ==
    CCMessage(n % 9, <<CCVolume, CCPan, CCVolume, CCExpression>>[(n % 4) + 1], (7 * n) % 128)

\* Connect to an input port only, which listens
ConnectInput ==
    /\ budget > 0
    /\ budget' = budget - 1
    /\ handler' = Connect(handler, "in", Nil, TRUE, TRUE)
    /\ returned' = <<ConnectError(handler, "in", Nil, TRUE, TRUE)>>
    /\ last' = Op("Connect", 0, 0, 0, handler'.connected)
    /\ outbox' = <<>>
    /\ UNCHANGED <<proc, state, engine, rd, lastVol, nrecv>>

\* the driver calls handleMIDI with a control-change message
DriverCC ==
    /\ handler.stopFunc
    /\ nrecv < CCChanCap + MaxOverflow
    /\ LET m == DriverMessage(nrecv) IN
           /\ handler' = HandleMIDI(handler, "cc", m.Channel, m.Controller, m.Value)
           /\ last' = [Op("DriverCC", m.Channel, m.Controller, m.Value,
                          Len(handler.ccChan) >= CCChanCap)
                       EXCEPT !.old = Len(handler.ccChan)]
    /\ nrecv' = nrecv + 1
    /\ outbox' = <<>>
    /\ UNCHANGED <<proc, returned, state, engine, rd, lastVol, budget>>

\* the driver calls handleMIDI with a message that is no control change
DriverOther ==
    /\ handler.stopFunc
    /\ handler' = HandleMIDI(handler, "note", 0, 0, 0)
    /\ last' = Op("DriverOther", 0, 0, 0, FALSE)
    /\ outbox' = <<>>
    /\ UNCHANGED <<proc, returned, state, engine, rd, lastVol, nrecv, budget>>

\* the receive of listenForMidi, msg := <-handler.CCChannel(): it blocks on
\* an open, empty channel
CanReceive(h) == Len(h.ccChan) > 0 \/ h.closed

\* variant: the receive takes the newest message of the queue
Receive_Newest(h) ==
    IF Len(h.ccChan) > 0
    THEN [msg |-> h.ccChan[Len(h.ccChan)],
          h |-> [h EXCEPT !.ccChan = SubSeq(h.ccChan, 1, Len(h.ccChan) - 1)]]
    ELSE [msg |-> CCMessage(0, 0, 0), h |-> h]

\* what the receive yields: the head of the queue, or the zero CCMessage when
\* the channel is closed and empty
Receive(h) ==
    IF Len(h.ccChan) > 0
    THEN [msg |-> Head(h.ccChan), h |-> [h EXCEPT !.ccChan = Tail(h.ccChan)]]
    ELSE [msg |-> CCMessage(0, 0, 0), h |-> h]

\* listenForMidi receives the head of the queue; Update applies it with
\* handleMidiCC and issues the next listenForMidi
ListenDeliver ==
    /\ proc.listen > 0
    /\ ~proc.quit
    /\ CanReceive(handler)
    /\ LET m == Receive(handler).msg
           w == HandleMidiCC(state, engine, m)
       IN  /\ state' = w.s
           /\ engine' = w.e
           /\ outbox' = w.out
           /\ lastVol' = Sent(lastVol, w.out)
           /\ last' = Op("MidiCC", m.Channel, m.Controller, m.Value, FALSE)
    /\ handler' = Receive(handler).h
    /\ proc' = [proc EXCEPT !.listen = (proc.listen - 1) + 1]
    /\ UNCHANGED <<returned, rd, nrecv, budget>>

InitQueue == Init0(MaxQueueOps)

NextQueue ==
    \/ ConnectInput
    \/ DriverCC
    \/ DriverOther
    \/ ListenDeliver

SpecQueue == InitQueue /\ [][NextQueue]_vars

\* C10: the queue never holds more than 100 messages; a control change that
\* arrives while it is full is discarded and leaves the queued messages and
\* their order unchanged; the callback can always run to completion, whatever
\* the queue holds.
C10_DropNewest ==
    /\ [](Len(handler.ccChan) <= CCChanCap)
    /\ []((handler.stopFunc /\ nrecv < CCChanCap + MaxOverflow) => ENABLED DriverCC)
    /\ [][last'.op = "DriverCC" =>
            handler'.ccChan =
                IF Len(handler.ccChan) >= CCChanCap
                THEN handler.ccChan
                ELSE Append(handler.ccChan, CCMessage(last'.ch, last'.cc, last'.val))]_vars

C10_Witness ==
    /\ last.op = "DriverCC"
    /\ last.flag
    /\ Len(handler.ccChan) = CCChanCap
    /\ Head(handler.ccChan) # DriverMessage(0)


WaveBufferSizes == {264}

ReadBlock ==
    \E nbytes \in WaveBufferSizes :
        /\ rd.pc = "idle"
        /\ engine.samplePos + (nbytes \div 4) <= MaxWaveSamples
        /\ rd' = ReadSnapshot(engine, rd, nbytes)
        /\ last' = Op("Read", 0, 0, nbytes, FALSE)
        /\ UNCHANGED <<proc, returned, state, engine, handler, outbox, lastVol, nrecv, budget>>

CallGetWaveform ==
    /\ budget > 0
    /\ budget' = budget - 1
    /\ returned' = <<GetWaveform(engine)>>
    /\ last' = Op("GetWaveform", 0, 0, engine.samplePos, FALSE)
    /\ UNCHANGED <<proc, state, engine, handler, rd, outbox, lastVol, nrecv>>

\* the caller overwrites an entry of the slices it was given
ModifyReturned ==
    \E i \in {0, waveformSize - 1} :
        /\ budget > 0
        /\ returned # <<>>
        /\ budget' = budget - 1
        /\ returned' = [returned EXCEPT ![1].left[i] = NoValue - 1,
                                        ![1].right[i] = NoValue - 1]
        /\ last' = Op("ModifyReturned", 0, 0, i, FALSE)
        /\ UNCHANGED <<proc, state, engine, handler, rd, outbox, lastVol, nrecv>>

InitWave == Init0(MaxWaveOps)

NextWave ==
    \/ ReadBlock
    \/ ReadParams
    \/ ReadSample
    \/ CallGetWaveform
    \/ ModifyReturned

SpecWave == InitWave /\ [][NextWave]_vars

\* C22: after k samples were rendered, GetWaveform returns, left and right,
\* the last 128 samples in the order they were written, oldest first, and for
\* k < 128 the 128-k initial zeros followed by the k samples in order; the
\* call leaves the engine as it was, and a caller that writes into the slices
\* it got changes nothing in the ring.
C22_WaveformOldestFirst ==
    /\ [](\A i \in 0..(waveformSize - 1) :
            LET j == (engine.samplePos - waveformSize) + i
                expected == IF j >= 0 THEN j ELSE NoValue
            IN  /\ GetWaveform(engine).left[i] = expected
                /\ GetWaveform(engine).right[i] = expected)
    /\ [][last'.op = "GetWaveform" =>
            /\ returned' = <<GetWaveform(engine)>>
            /\ DOMAIN Head(returned').left = 0..(waveformSize - 1)
            /\ DOMAIN Head(returned').right = 0..(waveformSize - 1)
            /\ engine' = engine]_vars
    /\ [][last'.op = "ModifyReturned" =>
            /\ Head(returned').left[last'.val] # Head(<<GetWaveform(engine)>>).left[last'.val]
            /\ engine' = engine]_vars

\* GetWaveform after 130 samples, within the second block: the ring has
\* wrapped, entries 0 and 1 of the ring hold samples 128 and 129, and the
\* result starts at sample 2
C22_Witness ==
    /\ last.op = "GetWaveform"
    /\ engine.samplePos = 130
    /\ engine.waveformIdx = 2
    /\ engine.waveformL[0] = 128
    /\ returned[1].left[0] = 2
    /\ returned[1].left[127] = 129
    /\ returned[1].right[126] = 128


(***************************************************************************)
(* Outbound sends without a destination, and Connect (SpecMixer).          *)
(***************************************************************************)
\* C23: while no output destination is connected (no output port, never
\* connected, after a failed Connect, after a disconnect) SendCC hands nothing
\* to any port, and the volume, pan or mute operation that called it still
\* updates the mixer channel and the engine.
C23_SendCCNoDestination ==
    /\ [](~HasDestination =>
            /\ outbox = <<>>
            /\ \A ch \in 0..(NumChannels - 1), cc \in {CCVolume, CCPan}, v \in {0, 127} :
                   SendCC(handler, ch, cc, v) = <<>>)
    /\ [][(last'.op = "AdjustVolume" /\ ~HasDestination) =>
            LET new == MinMax127(state.Channels[last'.ch].Volume + last'.val)
            IN  /\ state'.Channels[last'.ch].Volume = new
                /\ engine'.channels[last'.ch].Volume = Rat(new, 127)]_vars
    /\ [][(last'.op = "AdjustPan" /\ ~HasDestination) =>
            LET new == MinMax127(state.Channels[last'.ch].Pan + last'.val)
            IN  /\ state'.Channels[last'.ch].Pan = new
                /\ engine'.channels[last'.ch].Pan = Rat(new - 64, 64)]_vars
    /\ [][(last'.op = "ToggleMute" /\ ~HasDestination) =>
            /\ state'.Channels[last'.ch].Mute = ~state.Channels[last'.ch].Mute
            /\ engine'.channels[last'.ch].Mute = state'.Channels[last'.ch].Mute]_vars

\* a volume change after a Connect whose output port did not open
C23_Witness ==
    /\ last.op = "AdjustVolume"
    /\ last.val = -5
    /\ returned = <<"failed to open output port">>
    /\ handler.outPort # Nil
    /\ ~handler.connected
    /\ outbox = <<>>
    /\ state.Channels[0].Volume = 95
    /\ engine.channels[0].Volume = Rat(95, 127)


\* C24: the reset key sets the selected channel to volume 100, pan 64, not
\* muted, not soloed, whatever it held, and leaves every other channel, the
\* selection index and the master volume unchanged.
C24_ResetSelectedChannel ==
    [][last'.op = "Reset" =>
        LET i == state.SelectedIndex
        IN  /\ last'.ch = i
            /\ state'.Channels[i].Volume = 100
            /\ state'.Channels[i].Pan = 64
            /\ ~state'.Channels[i].Mute
            /\ ~state'.Channels[i].Solo
            /\ state'.Channels[i].ID = state.Channels[i].ID
            /\ \A j \in DOMAIN state.Channels \ {i} :
                   state'.Channels[j] = state.Channels[j]
            /\ DOMAIN state'.Channels = DOMAIN state.Channels
            /\ state'.SelectedIndex = state.SelectedIndex
            /\ state'.MasterVolume = state.MasterVolume]_vars

\* channel 0, moved to pan 127 by an inbound message and then muted, was
\* reset (the engine still holds what the channel had before)
C24_Witness ==
    /\ last.op = "Reset"
    /\ last.ch = 0
    /\ state.SelectedIndex = 0
    /\ state.Channels[0] = NewChannel(0)
    /\ engine.channels[0].Mute
    /\ engine.channels[0].Pan = Rat(63, 64)


\* C25: in the state NewState(8) builds, channel i has ID i for i in 0..7,
\* every channel has volume 100, pan 64 and no solo, the FX channel (index 7)
\* and no other is muted, the master volume is 100, and the engine's channels
\* hold the same values converted: volume 100/127, pan 0, the FX channel
\* muted.
C25_InitialState ==
    last.op = "init" =>
        /\ DOMAIN state.Channels = 0..7
        /\ DOMAIN engine.channels = 0..7
        /\ state.MasterVolume = 100
        /\ \A i \in 0..7 :
               /\ state.Channels[i].ID = i
               /\ state.Channels[i].Volume = 100
               /\ state.Channels[i].Pan = 64
               /\ ~state.Channels[i].Solo
               /\ state.Channels[i].Mute <=> (i = 7)
               /\ engine.channels[i].Volume.num = 100
               /\ engine.channels[i].Volume.den = 127
               /\ engine.channels[i].Pan.num = 0
               /\ engine.channels[i].Mute <=> (i = 7)
               /\ ~engine.channels[i].Solo

\* the constructed state, before any operation
C25_Witness ==
    /\ last.op = "init"
    /\ budget = MaxMixerOps
    /\ state.hasAudio
    /\ state.Channels[ChFX].Mute
    /\ engine.channels[ChFX].Mute
    /\ engine.channels[ChKick].Frequency = 60
    /\ engine.samplePos = 0


\* the outcomes of Connect's two fallible steps that make it fail: the output
\* port does not open, or it opens (or is absent) and the listener cannot start
ConnectFails(inP, outP, openOK, listenOK) ==
    \/ outP # Nil /\ ~openOK
    \/ (outP = Nil \/ openOK) /\ inP # Nil /\ ~listenOK

\* C26: from every state of the handler, a Connect whose output-port open or
\* input listen fails returns an error and leaves the handler not connected,
\* so that SendCC sends nothing, and without a running listener; the step
\* changes neither the mixer state nor the engine, and it is one attempt.
C26_FailedConnect ==
    /\ [](\A inP \in {Nil, "in"}, outP \in {Nil, "out"}, openOK \in BOOLEAN, listenOK \in BOOLEAN :
            LET h2 == Connect(handler, inP, outP, openOK, listenOK)
            IN  /\ ConnectFails(inP, outP, openOK, listenOK) <=>
                       ConnectError(handler, inP, outP, openOK, listenOK) # Nil
                /\ ConnectFails(inP, outP, openOK, listenOK) =>
                       /\ ~h2.connected
                       /\ ~h2.stopFunc
                       /\ SendCC(h2, 0, CCVolume, 100) = <<>>)
    /\ [][last'.op = "Connect" =>
            /\ state' = state
            /\ engine' = engine
            /\ outbox' = <<>>
            /\ budget' = budget - 1
            /\ (returned' # <<Nil>>) <=> ~handler'.connected]_vars

\* a Connect that fails at the listener, on a handler that was connected and
\* had sent a volume before
C26_Witness ==
    /\ last.op = "Connect"
    /\ returned = <<"failed to listen on input port">>
    /\ lastVol[0] = 105
    /\ handler.outPort # Nil
    /\ ~handler.connected
    /\ ~handler.stopFunc
    /\ state.Channels[0].Volume = 105


(***************************************************************************)
(* SpecNoAudio: the coordination layer after NewEngine failed to acquire   *)
(* the audio device: State.AudioEngine is nil.                             *)
(***************************************************************************)
InitNoAudio ==
    LET r == NewEngineOrError(NumChannels, FALSE)
    IN  /\ state = NewState(NumChannels, r.engine # Nil)
        /\ engine = r.engine
        /\ handler = NewHandler
        /\ rd = IdleFrame
        /\ last = Op("init", 0, 0, 0, FALSE)
        /\ outbox = <<>>
        /\ lastVol = [c \in 0..(NumChannels - 1) |-> NoValue]
        /\ nrecv = 0
        /\ budget = MaxNoAudioOps
        /\ returned = <<r.err>>
        /\ proc = ProcInit

\* a getter of the State
Getter(name, v) ==
    /\ returned' = <<v>>
    /\ last' = Op(name, 0, 0, 0, FALSE)
    /\ outbox' = <<>>
    /\ UNCHANGED <<proc, state, engine, handler, rd, lastVol, nrecv, budget>>

CallGetBPM == Getter("GetBPM", StateGetBPM(state, engine))

CallGetPatternIndex == Getter("GetPatternIndex", StateGetPatternIndex(state, engine))

CallGetCurrentStep == Getter("GetCurrentStep", StateGetCurrentStep(state, engine))

\* the "q" key: State.Close, after which the program quits
CallClose ==
    /\ budget > 0
    /\ budget' = 0
    /\ engine' = StateClose(state, engine, handler).e
    /\ handler' = StateClose(state, engine, handler).h
    /\ last' = Op("Close", 0, 0, 0, FALSE)
    /\ outbox' = <<>>
    /\ UNCHANGED <<proc, returned, state, rd, lastVol, nrecv>>

NextNoAudio ==
    \/ ConnectOutput
    \/ KeySelectNext
    \/ KeyAdjustVolume
    \/ KeyAdjustPan
    \/ KeyToggleMute
    \/ KeyToggleSolo
    \/ UpdateMidiMsg
    \/ CallAdjustMasterVolume
    \/ CallAdjustBPM
    \/ CallNextPattern
    \/ CallPrevPattern
    \/ CallGetBPM
    \/ CallGetPatternIndex
    \/ CallGetCurrentStep
    \/ CallClose

SpecNoAudio == InitNoAudio /\ [][NextNoAudio]_vars


\* C27: when the audio device cannot be acquired NewEngine returns an error
\* and no engine, and the coordination layer runs without one: adjust, toggle,
\* inbound set, pattern / BPM calls and Close can always be taken to
\* completion, the mixer records and the outbound sends are updated as they
\* are with an engine, and GetBPM / GetPatternIndex / GetCurrentStep return
\* 120 / 0 / 0.
C27_RunsWithoutAudio ==
    /\ [](/\ NewEngineOrError(NumChannels, FALSE).engine = Nil
          /\ NewEngineOrError(NumChannels, FALSE).err # Nil
          /\ engine = Nil
          /\ ~state.hasAudio)
    /\ [](/\ StateGetBPM(state, engine) = 120
          /\ StateGetPatternIndex(state, engine) = 0
          /\ StateGetCurrentStep(state, engine) = 0)
    /\ [](budget > 0 =>
            /\ ENABLED KeyAdjustVolume
            /\ ENABLED KeyAdjustPan
            /\ ENABLED KeyToggleMute
            /\ ENABLED KeyToggleSolo
            /\ ENABLED UpdateMidiMsg
            /\ ENABLED CallAdjustMasterVolume
            /\ ENABLED CallClose)
    /\ [](ENABLED CallAdjustBPM /\ ENABLED CallNextPattern /\ ENABLED CallPrevPattern)
    /\ [][last'.op = "AdjustVolume" =>
            LET new == MinMax127(state.Channels[last'.ch].Volume + last'.val)
            IN  /\ state'.Channels[last'.ch].Volume = new
                /\ outbox' = IF HasDestination /\ ~state.Channels[last'.ch].Mute
                             THEN <<CCMessage(last'.ch, CCVolume, new)>> ELSE <<>>]_vars
    /\ [][last'.op = "AdjustPan" =>
            LET new == MinMax127(state.Channels[last'.ch].Pan + last'.val)
            IN  /\ state'.Channels[last'.ch].Pan = new
                /\ outbox' = IF HasDestination
                             THEN <<CCMessage(last'.ch, CCPan, new)>> ELSE <<>>]_vars
    /\ [][last'.op = "ToggleMute" =>
            /\ state'.Channels[last'.ch].Mute = ~state.Channels[last'.ch].Mute
            /\ outbox' = IF ~HasDestination THEN <<>>
                         ELSE IF state'.Channels[last'.ch].Mute
                         THEN <<CCMessage(last'.ch, CCVolume, 0)>>
                         ELSE <<CCMessage(last'.ch, CCVolume, state.Channels[last'.ch].Volume)>>]_vars
    /\ [][last'.op = "ToggleSolo" =>
            /\ state' = [state EXCEPT !.Channels[last'.ch].Solo =
                                          ~state.Channels[last'.ch].Solo]
            /\ outbox' =
                 IF ~HasDestination THEN <<>>
                 ELSE [k \in 1..NumChannels |->
                          LET ch == state'.Channels[k - 1]
                              anySolo == \E j \in DOMAIN state'.Channels :
                                             state'.Channels[j].Solo
                              audible == ~ch.Mute /\ (anySolo => ch.Solo)
                          IN  CCMessage(k - 1, CCVolume,
                                        IF audible THEN ch.Volume ELSE 0)]]_vars
    /\ [][(last'.op = "MidiCC" /\ last'.ch < NumChannels /\ last'.cc \in {CCVolume, CCPan}) =>
            /\ last'.cc = CCVolume => state'.Channels[last'.ch].Volume = last'.val
            /\ last'.cc = CCPan => state'.Channels[last'.ch].Pan = last'.val
            /\ outbox' = <<>>]_vars
    /\ [][last'.op = "AdjustMasterVolume" =>
            state'.MasterVolume = MinMax127(state.MasterVolume + last'.val)]_vars
    /\ [][last'.op \in {"AdjustBPM", "NextPattern", "PrevPattern"} =>
            state' = state /\ last'.old = IF last'.op = "AdjustBPM" THEN 120 ELSE 0]_vars
    /\ [][last'.op = "Close" =>
            /\ handler'.closed
            /\ ~handler'.connected
            /\ state' = state]_vars
    /\ [][last'.op = "GetBPM" => returned' = <<120>>]_vars
    /\ [][last'.op \in {"GetPatternIndex", "GetCurrentStep"} => returned' = <<0>>]_vars

\* without an engine and with a destination connected, channel 0 was muted
\* and the mute was sent
C27_Witness ==
    /\ engine = Nil
    /\ last.op = "ToggleMute"
    /\ HasDestination
    /\ state.Channels[0].Mute
    /\ outbox = <<CCMessage(0, CCVolume, 0)>>
    /\ lastVol[0] = 0


(***************************************************************************)
(* SpecClip: softClip applied to the inputs n/ClipScale between -3 and 3;  *)
(* each call remembers the input of the call before it.                    *)
(***************************************************************************)
ClipInputs == (-(3 * ClipScale))..(3 * ClipScale)

InitClip ==
    \E n \in ClipInputs :
        /\ state = NewState(NumChannels, TRUE)
        /\ engine = NewStateEngine(NumChannels)
        /\ handler = NewHandler
        /\ rd = IdleFrame
        /\ last = OpOld("softClip", n, n)
        /\ outbox = <<>>
        /\ lastVol = [c \in 0..(NumChannels - 1) |-> NoValue]
        /\ nrecv = 0
        /\ budget = 0
        /\ returned = <<softClip(Rat(n, ClipScale))>>
        /\ proc = ProcInit

CallSoftClip ==
    \E n \in ClipInputs :
        /\ returned' = <<softClip(Rat(n, ClipScale))>>
        /\ last' = OpOld("softClip", n, last.val)
        /\ UNCHANGED <<proc, state, engine, handler, rd, outbox, lastVol, nrecv, budget>>

NextClip == CallSoftClip

SpecClip == InitClip /\ [][NextClip]_vars

\* C28: softClip maps every input into [-1, 1]; it is monotonic
\* non-decreasing: of two calls the one with the larger input returns at
\* least as much, also when the two inputs lie on different sides of a
\* breakpoint; and at the breakpoints 1 and -1 the cubic branch yields exactly
\* the hard bound.
C28_SoftClipBoundedMonotonic ==
    /\ [](/\ RatLE(Rat(-1, 1), Head(returned))
          /\ RatLE(Head(returned), Rat(1, 1)))
    /\ [][last.val <= last'.val => RatLE(Head(returned), Head(returned'))]_vars
    /\ [][last.val >= last'.val => RatLE(Head(returned'), Head(returned))]_vars
    /\ [](last.val = ClipScale => Head(returned) = Rat(1, 1))
    /\ [](last.val = -ClipScale => Head(returned) = Rat(-1, 1))

\* two calls on either side of the breakpoint 1: the input just below it,
\* then the input just above it
C28_Witness ==
    /\ last.op = "softClip"
    /\ last.old = ClipScale - 1
    /\ last.val = ClipScale + 1
    /\ Head(returned) = Rat(1, 1)

\* C29: softClip leaves near-zero signals unaltered: for an input x with
\* |x| <= 1/10 the output differs from x by at most one hundredth of |x|.
C29_UnityGainNearZero ==
    (last.op = "softClip" /\ Abs(last.val) * 10 <= ClipScale) =>
        LET x == Rat(last.val, ClipScale)
            d == RatAbs(RatSub(Head(returned), x))
        IN  RatLE([num |-> 100 * d.num, den |-> d.den], RatAbs(x))


PatternTempoKeys == {"p", "+", "-", ".", ","}

\* handleMixerKeys with a key for which its switch has no case: the model is
\* returned as it is
KeyPatternTempo ==
    \E key \in PatternTempoKeys :
        Control(Op(key, 0, 0, 0, FALSE), World(state, engine, <<>>))

InitKeys == Init0(MaxKeyOps)

NextKeys ==
    \/ KeySelectNext
    \/ KeySelectPrev
    \/ KeyAdjustVolume
    \/ KeyAdjustPan
    \/ KeyToggleMute
    \/ KeyToggleSolo
    \/ KeyReset
    \/ KeyPatternTempo

SpecKeys == InitKeys /\ [][NextKeys]_vars

\* C31: in the mixer view the key p advances the engine's pattern index by
\* one with wraparound, + and - change the BPM by +5 and -5, and . and , by
\* +1 and -1, clamped to [60,200].
C31_PatternTempoKeys ==
    /\ [][last'.op = "p" =>
            engine'.PatternIndex = (engine.PatternIndex + 1) % NumPresets]_vars
    /\ [][last'.op = "+" => engine'.BPM = ClampBPM(engine.BPM + 5)]_vars
    /\ [][last'.op = "-" => engine'.BPM = ClampBPM(engine.BPM - 5)]_vars
    /\ [][last'.op = "." => engine'.BPM = ClampBPM(engine.BPM + 1)]_vars
    /\ [][last'.op = "," => engine'.BPM = ClampBPM(engine.BPM - 1)]_vars


(***************************************************************************)
(* The sample counter, the envelopes and the oscillator phases belong to   *)
(* the render path.                                                        *)
(***************************************************************************)
\* what only the sample loop may write
RenderOwned(e) == <<e.samplePos, e.envelopes, e.phases>>

\* every call of the control context and Close, with every argument of the
\* input sets, leaves what the sample loop owns as it is; the getters and
\* GetWaveform return a value and assign no field of the engine
ControlKeepsRenderOwned(e) ==
    LET Same(e2) == RenderOwned(e2) = RenderOwned(e)
    IN  /\ \A c \in {0, NumChannels}, v \in EngineValues :
            /\ Same(EngineSetChannelVolume(e, c, v))
            /\ Same(EngineSetChannelPan(e, c, v))
        /\ \A c \in {0, NumChannels}, b \in BOOLEAN :
            /\ Same(EngineSetChannelMute(e, c, b))
            /\ Same(EngineSetChannelSolo(e, c, b))
        /\ \A v \in EngineValues : Same(EngineSetMasterVolume(e, v))
        /\ \A b \in {MinBPM - 1, DefaultBPM, MaxBPM + 1} : Same(EngineSetBPM(e, b))
        /\ \A p \in {-1, NumPresets - 1, NumPresets} : Same(EngineSetPattern(e, p))
        /\ Same(EngineNextPattern(e))
        /\ Same(EnginePrevPattern(e))
        /\ Same(EngineClose(e))

\* C32: the sample counter increases by exactly 1 in each iteration of the
\* sample loop of an active render and is changed by no other step; a render
\* of the closed engine, and every setter, BPM or pattern change and Close,
\* leave the counter, the envelopes and the oscillator phases as they are.
C32_CounterMonotonic ==
    /\ [][last'.op = "ReadSample" => engine'.samplePos = engine.samplePos + 1]_vars
    /\ [][last'.op # "ReadSample" => RenderOwned(engine') = RenderOwned(engine)]_vars
    /\ [][engine'.samplePos >= engine.samplePos]_vars
    /\ [](ControlKeepsRenderOwned(engine))

\* two samples were rendered, a channel was muted, and the counter is 2 with
\* the kick's phase advanced twice
C32_Witness ==
    /\ last.op = "EngineSetChannelMute"
    /\ last.flag
    /\ engine.samplePos = 2
    /\ engine.phases[ChKick] = 2
    /\ budget = MaxRenderOps - 1


(***************************************************************************)
(* SpecPattern: audioStream.Read interleaved with SetPattern, NextPattern  *)
(* and PrevPattern, from any step of the grid.                             *)
(***************************************************************************)
InitPattern == InitAt(MaxPatternOps)

\* arguments of SetPattern: below the table, its last index, one past it
PatternArgs == {-1, NumPresets - 1, NumPresets}

CallEngineSetPatternAny ==
    \E idx \in PatternArgs :
        EngineControl(OpOld("SetPattern", idx, engine.PatternIndex),
                      EngineSetPattern(engine, idx))

CallEnginePrevPattern ==
    EngineControl(OpOld("PrevPattern", 0, engine.PatternIndex), EnginePrevPattern(engine))

NextPattern ==
    \/ ReadBegin
    \/ ReadParams
    \/ ReadSample
    \/ CallEngineSetPatternAny
    \/ CallEngineNextPattern
    \/ CallEnginePrevPattern

SpecPattern == InitPattern /\ [][NextPattern]_vars

\* C36: the pattern index is within [0, len(BeatPresets)) and the step
\* GetCurrentStep reports is within [0,15]; inside the sample loop the
\* block's pattern index and the step of the next sample index the preset
\* table and a 16-column grid within their ranges.
C36_PatternAndStepInRange ==
    /\ engine.PatternIndex \in 0..(NumPresets - 1)
    /\ EngineGetCurrentStep(engine) \in 0..15
    /\ rd.pc = "loop" =>
          /\ (rd.patternIdx + 1) \in DOMAIN BeatPresets
          /\ ((engine.samplePos \div rd.samplesPerBeat) % 16) \in 0..15

\* the last preset was selected, a sample of step 15 was rendered, and
\* SetPattern(len(BeatPresets)) was then refused
C36_Witness ==
    /\ last.op = "SetPattern"
    /\ last.val = NumPresets
    /\ engine.PatternIndex = NumPresets - 1
    /\ engine.CurrentStep = 15
    /\ rd.rendered
    /\ rd.patternIdx = NumPresets - 1
    /\ engine.samplePos > rd.origin


\* C38: every volume (controller 7) message an operation sends for a channel
\* whose Mute flag is set when it is sent carries the value 0.
C38_MutedVolumeIsZero ==
    \A k \in DOMAIN outbox :
        (/\ outbox[k].Controller = CCVolume
         /\ state.Channels[outbox[k].Channel].Mute) => outbox[k].Value = 0

\* with the output connected and channel 0 muted, a solo toggle on channel 1
\* sent 0 for channel 0 and the stored volume for channel 1
C38_Witness ==
    /\ last.op = "ToggleSolo"
    /\ state.Channels[0].Mute
    /\ state.Channels[1].Solo
    /\ Len(outbox) = NumChannels
    /\ outbox[1] = CCMessage(0, CCVolume, 0)
    /\ outbox[2] = CCMessage(1, CCVolume, state.Channels[1].Volume)
    /\ state.Channels[0].Volume > 0


\* the mute and solo flags of every channel of the engine
EngineFlags(e) == [c \in DOMAIN e.channels |-> <<e.channels[c].Mute, e.channels[c].Solo>>]

\* C39: the same toggle applied twice restores the MixerChannel records and
\* the engine's mute and solo flags of every channel, and one toggle changes
\* only the selected channel's flag in the mixer records.
C39_TogglesAreInvolutions ==
    LET m1 == ToggleMute(state, engine, handler)
        m2 == ToggleMute(m1.s, m1.e, handler)
        s1 == ToggleSolo(state, engine, handler)
        s2 == ToggleSolo(s1.s, s1.e, handler)
        i == state.SelectedIndex
    IN  /\ m2.s = state
        /\ s2.s = state
        /\ EngineFlags(m2.e) = EngineFlags(engine)
        /\ EngineFlags(s2.e) = EngineFlags(engine)
        /\ m1.s = [state EXCEPT !.Channels[i].Mute = ~state.Channels[i].Mute]
        /\ s1.s = [state EXCEPT !.Channels[i].Solo = ~state.Channels[i].Solo]


\* C35: from one rendered sample to the next the step index stays the same
\* or advances by exactly one modulo 16, and a step is entered only at a
\* sample where the trigger section is evaluated, whatever SetBPM calls are
\* interleaved with rendering.
C35_StepsContiguous ==
    [][(last'.op = "ReadSample" /\ engine.samplePos > 0) =>
        /\ engine'.CurrentStep \in {engine.CurrentStep, (engine.CurrentStep + 1) % 16}
        /\ engine'.CurrentStep # engine.CurrentStep =>
              engine.samplePos % rd.samplesPerBeat = 0]_vars


(***************************************************************************)
(* SpecShutdown: the listening command, the driver and the q key.          *)
(***************************************************************************)
\* the driver delivers one of the first MaxListenMsgs control changes
DriverCCFew ==
    /\ nrecv < MaxListenMsgs
    /\ DriverCC

\* the q key: State.Close, then the tea.Quit command is issued
KeyQuit ==
    /\ ~proc.quitting
    /\ engine' = StateClose(state, engine, handler).e
    /\ handler' = StateClose(state, engine, handler).h
    /\ proc' = [proc EXCEPT !.quitting = TRUE]
    /\ last' = Op("Close", 0, 0, 0, FALSE)
    /\ outbox' = <<>>
    /\ UNCHANGED <<returned, state, rd, lastVol, nrecv, budget>>

\* the event loop receives the QuitMsg and ends the program
QuitDelivered ==
    /\ proc.quitting
    /\ ~proc.quit
    /\ proc' = [proc EXCEPT !.quit = TRUE]
    /\ last' = Op("QuitMsg", 0, 0, 0, FALSE)
    /\ outbox' = <<>>
    /\ UNCHANGED <<returned, state, engine, handler, rd, lastVol, nrecv, budget>>

InitShutdown == Init0(MaxShutdownOps)

NextShutdown ==
    \/ ConnectInput
    \/ DriverCCFew
    \/ ListenDeliver
    \/ KeyQuit
    \/ QuitDelivered

SpecShutdown == InitShutdown /\ [][NextShutdown]_vars

\* C37: every message the update loop hands to handleMidiCC is the head of
\* the queue at that moment, put there by handleMIDI; after Close no message
\* that was never enqueued is delivered.
C37_AppliedWasEnqueued ==
    [][last'.op = "MidiCC" =>
        /\ Len(handler.ccChan) > 0
        /\ Head(handler.ccChan) = CCMessage(last'.ch, last'.cc, last'.val)]_vars


(***************************************************************************)
(* SpecListen: the driver's callback and the listening command while the   *)
(* update loop keeps running.                                              *)
(***************************************************************************)
InitListen == Init0(MaxShutdownOps)

NextListen ==
    \/ ConnectInput
    \/ DriverCCFew
    \/ DriverOther
    \/ ListenDeliver

\* the update loop keeps running: a message the listening command can
\* receive is eventually received and applied
SpecListen == InitListen /\ [][NextListen]_vars /\ WF_vars(ListenDeliver)

\* the n-th driver message has just been accepted into the queue
Accepted(n) ==
    /\ last.op = "DriverCC"
    /\ ~last.flag
    /\ nrecv = n + 1

\* the latest step applied the n-th driver message
Applied(n) ==
    /\ last.op = "MidiCC"
    /\ CCMessage(last.ch, last.cc, last.val) = DriverMessage(n)

\* C40: an accepted message is appended at the tail of the queue; the
\* message the update loop applies is the head of the queue and is removed
\* by that step, so messages are applied in FIFO order, each once; exactly
\* one listening command is outstanding at any time; every accepted message
\* is eventually applied.
C40_FifoExactlyOnce ==
    /\ [][(last'.op = "DriverCC" /\ ~last'.flag) =>
            handler'.ccChan = Append(handler.ccChan,
                                     CCMessage(last'.ch, last'.cc, last'.val))]_vars
    /\ [][last'.op = "MidiCC" =>
            /\ Len(handler.ccChan) > 0
            /\ CCMessage(last'.ch, last'.cc, last'.val) = Head(handler.ccChan)
            /\ handler'.ccChan = Tail(handler.ccChan)]_vars
    /\ [](proc.listen = 1)
    /\ \A n \in 0..(MaxListenMsgs - 1) : Accepted(n) ~> Applied(n)

\* two messages were accepted; the first was applied and the second waits
C40_Witness ==
    /\ Applied(0)
    /\ nrecv = 2
    /\ handler.ccChan = <<DriverMessage(1)>>
    /\ proc.listen = 1


(***************************************************************************)
(* SpecLock: Read and the calls of the UI thread, one step per lock        *)
(* acquisition, locked section and release.                                *)
(***************************************************************************)
CanLock(l) == l.w = Nil /\ l.r = {}

\* variant: a read lock is granted while a writer holds the mutex
CanRLock_Always(l) == TRUE

CanRLock(l) == l.w = Nil

Lock(l, t) == [l EXCEPT !.w = t]

\* variant: Unlock leaves the mutex held
Unlock_Noop(l, t) == l

Unlock(l, t) == [l EXCEPT !.w = Nil]

RLock(l, t) == [l EXCEPT !.r = @ \cup {t}]

RUnlock(l, t) == [l EXCEPT !.r = @ \ {t}]

Holds(l, t) == l.w = t \/ t \in l.r

LockBufferSizes == {4, 8}

\* positions of the audio thread: before an acquisition
RenderWaiting == {"idle", "tempo.wait", "sample.wait", "wave.wait"}

\* Read acquires its next lock: mu.RLock for the snapshot and for the tempo,
\* mu.Lock for a sample, waveformMu.Lock for the ring
RenderAcquire ==
    /\ proc.rpc \in RenderWaiting
    /\ \/ /\ proc.rpc = "idle"
          /\ CanRLock(proc.mu)
          /\ \E nbytes \in LockBufferSizes :
                /\ engine.samplePos + (nbytes \div 4) <= MaxLockSamples
                /\ rd' = [rd EXCEPT !.nbytes = nbytes, !.ret = NoValue]
          /\ proc' = [proc EXCEPT !.mu = RLock(proc.mu, "render"), !.rpc = "snapshot"]
       \/ /\ proc.rpc = "tempo.wait"
          /\ CanRLock(proc.mu)
          /\ proc' = [proc EXCEPT !.mu = RLock(proc.mu, "render"), !.rpc = "tempo"]
          /\ rd' = rd
       \/ /\ proc.rpc = "sample.wait"
          /\ CanLock(proc.mu)
          /\ proc' = [proc EXCEPT !.mu = Lock(proc.mu, "render"), !.rpc = "sample"]
          /\ rd' = rd
       \/ /\ proc.rpc = "wave.wait"
          /\ CanLock(proc.wmu)
          /\ proc' = [proc EXCEPT !.wmu = Lock(proc.wmu, "render"), !.rpc = "waveL"]
          /\ rd' = rd
    /\ last' = Op("RenderAcquire", 0, 0, 0, FALSE)
    /\ UNCHANGED <<returned, state, engine, handler, outbox, lastVol, nrecv, budget>>

\* one iteration of the sample loop up to mu.Unlock: everything but the ring
RenderSampleCore(e, r) ==
    [RenderSampleEngine(e, r) EXCEPT !.waveformL = e.waveformL,
                                     !.waveformR = e.waveformR,
                                     !.waveformIdx = e.waveformIdx]

\* the sections under mu: the snapshot, the tempo, one sample
RenderSection ==
    /\ proc.rpc \in {"snapshot", "tempo", "sample"}
    /\ \/ /\ proc.rpc = "snapshot"
          /\ rd' = ReadSnapshot(engine, rd, rd.nbytes)
          /\ engine' = engine
       \/ /\ proc.rpc = "tempo"
          /\ rd' = ReadTempo(engine, rd)
          /\ engine' = engine
       \/ /\ proc.rpc = "sample"
          /\ rd' = RenderSampleFrame(engine, rd)
          /\ engine' = RenderSampleCore(engine, rd)
    /\ proc' = [proc EXCEPT !.rpc = proc.rpc \o ".done"]
    /\ last' = Op("RenderSection", 0, 0, engine.samplePos, FALSE)
    /\ UNCHANGED <<returned, state, handler, outbox, lastVol, nrecv, budget>>

\* the three assignments under waveformMu; the sample stored is the one the
\* iteration computed, whose counter value is samplePos - 1
RenderWave ==
    /\ proc.rpc \in {"waveL", "waveR", "waveIdx"}
    /\ \/ /\ proc.rpc = "waveL"
          /\ engine' = [engine EXCEPT !.waveformL[engine.waveformIdx] = engine.samplePos - 1]
          /\ proc' = [proc EXCEPT !.rpc = "waveR"]
       \/ /\ proc.rpc = "waveR"
          /\ engine' = [engine EXCEPT !.waveformR[engine.waveformIdx] = engine.samplePos - 1]
          /\ proc' = [proc EXCEPT !.rpc = "waveIdx"]
       \/ /\ proc.rpc = "waveIdx"
          /\ engine' = [engine EXCEPT !.waveformIdx = (engine.waveformIdx + 1) % waveformSize]
          /\ proc' = [proc EXCEPT !.rpc = "wave.done"]
    /\ last' = Op("RenderWave", 0, 0, engine.samplePos - 1, FALSE)
    /\ UNCHANGED <<returned, state, handler, rd, outbox, lastVol, nrecv, budget>>

\* Read releases the lock of the section it has finished and goes on: to
\* the return when the engine is closed or the buffer is full, to the tempo,
\* to the ring, to the next sample
RenderRelease ==
    /\ proc.rpc \in {"snapshot.done", "tempo.done", "sample.done", "wave.done"}
    /\ \/ /\ proc.rpc = "snapshot.done"
          /\ proc' = [proc EXCEPT !.mu = RUnlock(proc.mu, "render"),
                                  !.rpc = IF rd.pc = "idle" THEN "idle" ELSE "tempo.wait"]
       \/ /\ proc.rpc = "tempo.done"
          /\ proc' = [proc EXCEPT !.mu = RUnlock(proc.mu, "render"),
                                  !.rpc = IF rd.pc = "idle" THEN "idle" ELSE "sample.wait"]
       \/ /\ proc.rpc = "sample.done"
          /\ proc' = [proc EXCEPT !.mu = Unlock(proc.mu, "render"), !.rpc = "wave.wait"]
       \/ /\ proc.rpc = "wave.done"
          /\ proc' = [proc EXCEPT !.wmu = Unlock(proc.wmu, "render"),
                                  !.rpc = IF rd.pc = "idle" THEN "idle" ELSE "sample.wait"]
    /\ last' = Op("RenderRelease", 0, 0, 0, FALSE)
    /\ UNCHANGED <<returned, state, engine, handler, rd, outbox, lastVol, nrecv, budget>>

\* the calls of the UI thread: a setter, Close, a getter, the snapshot
UIWriters == {"SetMasterVolume", "Close"}
UIReaders == {"GetBPM"}
UISnapshots == {"GetWaveform"}

\* the UI thread enters a call on the engine
UIStart ==
    /\ budget > 0
    /\ proc.ui.pc = "idle"
    /\ \E op \in UIWriters \cup UIReaders \cup UISnapshots, v \in EngineValues :
          /\ (op # "SetMasterVolume") => v = 0
          /\ proc' = [proc EXCEPT !.ui = [pc |-> "wait", op |-> op, val |-> v]]
          /\ last' = Op("UIStart", 0, 0, v, FALSE)
    /\ budget' = budget - 1
    /\ UNCHANGED <<returned, state, engine, handler, rd, outbox, lastVol, nrecv>>

\* the call acquires its lock: mu.Lock, mu.RLock or waveformMu.RLock
UIAcquire ==
    /\ proc.ui.pc = "wait"
    /\ \/ /\ proc.ui.op \in UIWriters
          /\ CanLock(proc.mu)
          /\ proc' = [proc EXCEPT !.mu = Lock(proc.mu, "ui"), !.ui.pc = "locked"]
       \/ /\ proc.ui.op \in UIReaders
          /\ CanRLock(proc.mu)
          /\ proc' = [proc EXCEPT !.mu = RLock(proc.mu, "ui"), !.ui.pc = "locked"]
       \/ /\ proc.ui.op \in UISnapshots
          /\ CanRLock(proc.wmu)
          /\ proc' = [proc EXCEPT !.wmu = RLock(proc.wmu, "ui"), !.ui.pc = "locked"]
    /\ last' = Op("UIAcquire", 0, 0, 0, FALSE)
    /\ UNCHANGED <<returned, state, engine, handler, rd, outbox, lastVol, nrecv, budget>>

\* the body of the call, under its lock; the BPM GetBPM returns is recorded
\* as the value of the step
UIBody ==
    /\ proc.ui.pc = "locked"
    /\ \/ /\ proc.ui.op = "SetMasterVolume"
          /\ engine' = EngineSetMasterVolume(engine, proc.ui.val)
          /\ returned' = returned
       \/ /\ proc.ui.op = "Close"
          /\ engine' = EngineClose(engine)
          /\ returned' = returned
       \/ /\ proc.ui.op = "GetBPM"
          /\ engine' = engine
          /\ returned' = returned
       \/ /\ proc.ui.op = "GetWaveform"
          /\ engine' = engine
          /\ returned' = <<GetWaveform(engine)>>
    /\ proc' = [proc EXCEPT !.ui.pc = "done"]
    /\ last' = Op(proc.ui.op, 0, 0,
                  IF proc.ui.op = "GetBPM" THEN EngineGetBPM(engine) ELSE proc.ui.val,
                  FALSE)
    /\ UNCHANGED <<state, handler, rd, outbox, lastVol, nrecv, budget>>

\* the deferred unlock; the call returns
UIRelease ==
    /\ proc.ui.pc = "done"
    /\ \/ /\ proc.ui.op \in UIWriters
          /\ proc' = [proc EXCEPT !.mu = Unlock(proc.mu, "ui"), !.ui = UIIdle]
       \/ /\ proc.ui.op \in UIReaders
          /\ proc' = [proc EXCEPT !.mu = RUnlock(proc.mu, "ui"), !.ui = UIIdle]
       \/ /\ proc.ui.op \in UISnapshots
          /\ proc' = [proc EXCEPT !.wmu = RUnlock(proc.wmu, "ui"), !.ui = UIIdle]
    /\ last' = Op("UIRelease", 0, 0, 0, FALSE)
    /\ UNCHANGED <<returned, state, engine, handler, rd, outbox, lastVol, nrecv, budget>>

InitLock == Init0(MaxLockOps)

NextLock ==
    \/ RenderAcquire
    \/ RenderSection
    \/ RenderWave
    \/ RenderRelease
    \/ UIStart
    \/ UIAcquire
    \/ UIBody
    \/ UIRelease

\* a thread inside a locked section goes on to its release; a thread waiting
\* for a mutex that is free again and again gets it (sync.Mutex hands the
\* lock to a starving waiter)
SpecLock ==
    /\ InitLock
    /\ [][NextLock]_vars
    /\ WF_vars(RenderSection \/ RenderWave \/ RenderRelease)
    /\ WF_vars(UIBody \/ UIRelease)
    /\ SF_vars(UIAcquire)


Threads == {"render", "ui"}

\* C33: no thread holds Engine.mu and Engine.waveformMu at the same time; a
\* Read that has returned and a UI call that has returned hold no lock; and
\* every setter, getter and snapshot the UI thread has entered returns.
C33_NoNestedLocksNoDeadlock ==
    /\ [](\A t \in Threads : ~(Holds(proc.mu, t) /\ Holds(proc.wmu, t)))
    /\ [](proc.rpc = "idle" =>
            ~Holds(proc.mu, "render") /\ ~Holds(proc.wmu, "render"))
    /\ [](proc.ui.pc = "idle" => ~Holds(proc.mu, "ui") /\ ~Holds(proc.wmu, "ui"))
    /\ (proc.ui.pc # "idle") ~> (proc.ui.pc = "idle")

\* after a first call has returned, SetMasterVolume waits for mu while Read
\* holds it for a sample
C33_Witness ==
    /\ proc.ui.pc = "wait"
    /\ proc.ui.op = "SetMasterVolume"
    /\ proc.mu.w = "render"
    /\ proc.rpc = "sample.done"
    /\ budget = MaxLockOps - 2

\* C34: the write index stays in [0,128); in every snapshot GetWaveform
\* returns, left and right hold the same sample at every position and the
\* samples follow each other in the order rendered; outside the section
\* under waveformMu both rings hold the same samples.
C34_SnapshotConsistent ==
    /\ [](engine.waveformIdx \in 0..(waveformSize - 1))
    /\ [](proc.wmu.w = Nil => engine.waveformL = engine.waveformR)
    /\ [][last'.op = "GetWaveform" =>
            LET w == Head(returned')
            IN  /\ \A i \in 0..(waveformSize - 1) : w.left[i] = w.right[i]
                /\ \A i \in 0..(waveformSize - 2) :
                      w.left[i] # NoValue => w.left[i + 1] = w.left[i] + 1
                /\ w.left[waveformSize - 1] \in {NoValue, engine.samplePos - 1,
                                                 engine.samplePos - 2}]_vars

\* the snapshot was taken while Read, having computed the second sample,
\* waits for waveformMu: it ends with the first sample
C34_Witness ==
    /\ last.op = "GetWaveform"
    /\ proc.rpc = "wave.wait"
    /\ Holds(proc.wmu, "ui")
    /\ engine.samplePos = 2
    /\ Head(returned).left[waveformSize - 1] = 0
    /\ Head(returned).right[waveformSize - 1] = 0

====
